---------------------------- MODULE Spec2Model ----------------------------
(***************************************************************************)
(* A model of wal-g's concurrent copy engine (package copy: Infos,         *)
(* copyObject) and of the S3 Folder's bulk deletion (package s3:           *)
(* DeleteObjects, partitionToObjects, getObjectVersions,                   *)
(* isVersioningEnabled).                                                   *)
(*                                                                         *)
(* Two specifications share the module: SpecInfos runs one call of Infos   *)
(* on a job list, SpecDelete runs one call of Folder.DeleteObjects on a    *)
(* list of relative paths.  SpecVersioning, SpecObjects and SpecList run    *)
(* the other operations of the S3 Folder (SetVersioningEnabled,            *)
(* GetSubFolder, Exists, ReadObject, CopyObject, ListFolder) on Folders    *)
(* that share Config objects and a bucket, and SpecBuild runs              *)
(* BuildCopyingInfos.                                                      *)
(***************************************************************************)
EXTENDS Integers, Sequences, FiniteSets, Bags, TLC

(***************************************************************************)
(* Bounds of the model.                                                    *)
(***************************************************************************)
\* Longest job list handed to Infos whose jobs all succeed.
MaxJobs == 17
\* Longest job list handed to Infos that holds failing jobs.
MaxFailJobs == 9
\* Only the first FailWindow jobs of a list may be failing jobs.
FailWindow == 2
\* Longest list of relative paths handed to DeleteObjects, among the lists
\* that enumerate every choice of names.
MaxPaths == 2
\* Most full parts (of DeleteBatchSize paths) in a long list handed to
\* DeleteObjects.
MaxFullParts == 2
\* Most revisions a ListObjectVersions response holds when the backend does
\* not cut it short (the bucket holds fewer under any prefix).
MaxPage == 6
\* Number of Config objects the Folders are built from.
MaxConfigs == 2
\* Most Folders built in a run.
MaxFolders == 2
\* Most CopyObject calls that are between their existence check and their
\* backend copy at the same time.
MaxCopying == 1
\* Longest list of objects handed to BuildCopyingInfos.
MaxObjects == 5
\* Most s3API.DeleteObjects calls made on the Folders of one bucket.
MaxDeleteCalls == 1
\* Jobs in the list of a run of Infos that returns early: with 18 jobs
\* started, one more than the errors channel and the two sends that find it
\* full.
MaxEarlyJobs == 19
\* Longest path, in characters, handed to NewFolder and to GetSubFolder.
MaxPathLen == 3
\* Longest chain of GetSubFolder calls from a Folder built by NewFolder.
MaxDepth == 2

(***************************************************************************)
(* Program constants.                                                      *)
(***************************************************************************)
\* maxParallelJobsCount := 8
maxParallelJobsCount == 8
\* errors := make(chan error, maxParallelJobsCount*2)
ErrorsCap == maxParallelJobsCount * 2

\* partitionStrings(objectRelativePaths, 1000)
DeleteBatchSize == 1000

\* The nil error.
NoError == 0
\* An ObjectIdentifier without a VersionId.  (Version ids are numbers; 0 is
\* the version id "null" S3 gives what is written while the bucket is not
\* versioned.)
NoVersionId == -1

VARIABLES
  \* ---- Infos ----
  chs,          \* the job list: chs[i] is the error copyObject returns for job i
  idx,          \* number of iterations of "for _, ch := range chs" completed
  pc,           \* position of the goroutine running Infos
  ret,          \* value returned by Infos, once pc = "returned"
  tickets,      \* number of values buffered in the tickets channel
  errors,       \* contents of the errors channel, oldest first
  wg,           \* the WaitGroup counter
  goroutines,   \* bag of the job goroutines: [at, val]
  \* ---- history of the run of Infos ----
  started,      \* handlers of the goroutines started so far, in start order
  copied,       \* bag of the handlers whose copyObject has returned
  firstFailed,  \* error of the first copyObject that returned an error
  firstReported,\* first non-nil error sent to the errors channel
  drained,      \* values Infos has received from the errors channel
  \* ---- the Folder and the S3 bucket behind it ----
  EnableVersioning,    \* folder.config.EnableVersioning
  bucketStatus,        \* the bucket's versioning status at the backend
  versioningQueryFails,\* whether GetBucketVersioning answers with an error
  store,               \* full key -> its revisions, newest first
  listFails,           \* prefixes for which ListObjectVersions answers an error
  pageLimit,           \* most revisions one ListObjectVersions response holds
  \* ---- one call of Folder.DeleteObjects ----
  objectRelativePaths, \* the argument of the call
  dpc,                 \* position of the call: "idle", "parts", "returned"
  needsVersioning,     \* needsVersioning := folder.isVersioningEnabled()
  parts,               \* the parts the loop has not reached yet
  calls,               \* the s3API.DeleteObjects calls issued, in call order
  dret,                \* value returned by DeleteObjects
  store0,              \* the store when DeleteObjects was called
  \* ---- Folders, the Config objects they point to, and calls on them ----
  configs,             \* the Config objects: configs[c].EnableVersioning
  folders,             \* the Folders built so far: [path, config]
  op,                  \* the last call made: its arguments, the backend calls
                       \* it issued, and what it returned
  copying              \* the CopyObject calls between Exists and the copy

infosVars == <<chs, idx, pc, ret, tickets, errors, wg, goroutines,
               started, copied, firstFailed, firstReported, drained>>

backendVars == <<bucketStatus, versioningQueryFails, store, listFails, pageLimit>>

deleteVars == <<EnableVersioning, backendVars, objectRelativePaths, dpc,
                needsVersioning, parts, calls, dret, store0>>

folderVars == <<configs, folders, op, copying>>

vars == <<infosVars, deleteVars, folderVars>>

(***************************************************************************)
(* The part of the state a specification does not use stays as it is here. *)
(***************************************************************************)
IdleInfos ==
  /\ chs = <<>>
  /\ idx = 0
  /\ pc = "idle"
  /\ ret = NoError
  /\ tickets = 0
  /\ errors = <<>>
  /\ wg = 0
  /\ goroutines = EmptyBag
  /\ started = <<>>
  /\ copied = EmptyBag
  /\ firstFailed = NoError
  /\ firstReported = NoError
  /\ drained = <<>>

IdleDelete ==
  /\ EnableVersioning = ""
  /\ bucketStatus = ""
  /\ versioningQueryFails = FALSE
  /\ store = <<>>
  /\ listFails = {}
  /\ pageLimit = 0
  /\ objectRelativePaths = <<>>
  /\ dpc = "idle"
  /\ needsVersioning = FALSE
  /\ parts = <<>>
  /\ calls = <<>>
  /\ dret = [failed |-> FALSE, part |-> <<>>]
  /\ store0 = <<>>

\* No call has been made.
NoOp == [name |-> ""]

IdleFolder ==
  /\ configs = <<>>
  /\ folders = <<>>
  /\ op = NoOp
  /\ copying = {}

Min(a, b) == IF a < b THEN a ELSE b

(***************************************************************************)
(* Infos.  A job (InfoProvider) is modelled by the value its copyObject    *)
(* returns: NoError, or the job's own error, named by the job's position   *)
(* in the list.  Goroutines are anonymous: a job goroutine is its position *)
(* in the closure ("copyObject", "tickets", "errors", "Done") and the      *)
(* value it holds there (the handler, then err).                           *)
(***************************************************************************)
JobList(n, F) == [i \in 1..n |-> IF i \in F THEN i ELSE NoError]

\* The job lists Infos is run on: every list of up to MaxJobs succeeding
\* jobs, and every list of up to MaxFailJobs jobs of which one or two of the
\* first FailWindow fail (two failing jobs are what the order of the errors
\* needs; a job that fails early and is slow stands for the later ones).
InfosInputs ==
  {JobList(n, {}) : n \in 0..MaxJobs}
    \cup {JobList(n, F) : n \in 1..MaxFailJobs,
                          F \in {X \in SUBSET (1..FailWindow) : Cardinality(X) <= 2}}

\* err := handler.copyObject()
copyObject(handler) == handler

Goroutine(at, val) == [at |-> at, val |-> val]

One(g) == SetToBag({g})

At(at) == {g \in BagToSet(goroutines) : g.at = at}

\* The goroutine g moves on to be h.
Becomes(g, h) == goroutines' = (goroutines (-) One(g)) (+) One(h)

InitInfos ==
  /\ IdleDelete
  /\ IdleFolder
  /\ chs \in InfosInputs
  /\ idx = 0
  /\ pc = IF Len(chs) = 0 THEN "Wait" ELSE "drain"
  /\ ret = NoError
  /\ tickets = maxParallelJobsCount
  /\ errors = <<>>
  /\ wg = 0
  /\ goroutines = EmptyBag
  /\ started = <<>>
  /\ copied = EmptyBag
  /\ firstFailed = NoError
  /\ firstReported = NoError
  /\ drained = <<>>

\* Mutant of Receive: a received error is dropped and Infos goes on.
ReceiveIgnoringError ==
  /\ Len(errors) > 0
  /\ errors' = Tail(errors)
  /\ drained' = Append(drained, Head(errors))
  /\ UNCHANGED <<pc, ret>>
  /\ UNCHANGED <<deleteVars, folderVars, chs, idx, tickets, wg, goroutines,
                 started, copied, firstFailed, firstReported>>

\* Mutant of Receive: the newest buffered result is received, not the oldest.
ReceiveNewest ==
  /\ Len(errors) > 0
  /\ errors' = SubSeq(errors, 1, Len(errors) - 1)
  /\ drained' = Append(drained, errors[Len(errors)])
  /\ IF errors[Len(errors)] # NoError
       THEN pc' = "returned" /\ ret' = errors[Len(errors)]
       ELSE UNCHANGED <<pc, ret>>
  /\ UNCHANGED <<deleteVars, folderVars, chs, idx, tickets, wg, goroutines,
                 started, copied, firstFailed, firstReported>>

\* for len(errors) > 0 { if err := <-errors; err != nil { return err } }
Receive ==
  /\ Len(errors) > 0
  /\ errors' = Tail(errors)
  /\ drained' = Append(drained, Head(errors))
  /\ IF Head(errors) # NoError
       THEN pc' = "returned" /\ ret' = Head(errors)
       ELSE UNCHANGED <<pc, ret>>
  /\ UNCHANGED <<deleteVars, folderVars, chs, idx, tickets, wg, goroutines,
                 started, copied, firstFailed, firstReported>>

\* The drain at the head of the loop body receives a result.
DrainReceive ==
  /\ pc = "drain"
  /\ Receive

\* len(errors) = 0 at the head of the loop body: go on to <-tickets.
DrainEmpty ==
  /\ pc = "drain"
  /\ Len(errors) = 0
  /\ pc' = "tickets"
  /\ UNCHANGED <<deleteVars, folderVars, chs, idx, ret, tickets, errors, wg, goroutines,
                 started, copied, firstFailed, firstReported, drained>>

\* Mutant of Admit: the goroutine is started without waiting for a ticket.
AdmitWithoutTicket ==
  /\ pc = "tickets"
  /\ tickets' = IF tickets > 0 THEN tickets - 1 ELSE 0
  /\ wg' = wg + 1
  /\ goroutines' = goroutines (+) One(Goroutine("copyObject", chs[idx + 1]))
  /\ started' = Append(started, chs[idx + 1])
  /\ idx' = idx + 1
  /\ pc' = IF idx + 1 = Len(chs) THEN "Wait" ELSE "drain"
  /\ UNCHANGED <<deleteVars, folderVars, chs, ret, errors, copied, firstFailed,
                 firstReported, drained>>

\* Mutant of Admit: the list is walked from its end.
AdmitFromTheEnd ==
  /\ pc = "tickets"
  /\ tickets > 0
  /\ tickets' = tickets - 1
  /\ wg' = wg + 1
  /\ goroutines' =
       goroutines (+) One(Goroutine("copyObject", chs[Len(chs) - idx]))
  /\ started' = Append(started, chs[Len(chs) - idx])
  /\ idx' = idx + 1
  /\ pc' = IF idx + 1 = Len(chs) THEN "Wait" ELSE "drain"
  /\ UNCHANGED <<deleteVars, folderVars, chs, ret, errors, copied, firstFailed,
                 firstReported, drained>>

\* <-tickets; wg.Add(1); go func(handler InfoProvider) {...}(ch)
Admit ==
  /\ pc = "tickets"
  /\ tickets > 0
  /\ tickets' = tickets - 1
  /\ wg' = wg + 1
  /\ goroutines' = goroutines (+) One(Goroutine("copyObject", chs[idx + 1]))
  /\ started' = Append(started, chs[idx + 1])
  /\ idx' = idx + 1
  /\ pc' = IF idx + 1 = Len(chs) THEN "Wait" ELSE "drain"
  /\ UNCHANGED <<deleteVars, folderVars, chs, ret, errors, copied, firstFailed, firstReported, drained>>

\* Mutant of Wait: Infos goes on without waiting for the job goroutines.
WaitWithoutJoin ==
  /\ pc = "Wait"
  /\ pc' = "final"
  /\ UNCHANGED <<deleteVars, folderVars, chs, idx, ret, tickets, errors, wg, goroutines,
                 started, copied, firstFailed, firstReported, drained>>

\* wg.Wait()
Wait ==
  /\ pc = "Wait"
  /\ wg = 0
  /\ pc' = "final"
  /\ UNCHANGED <<deleteVars, folderVars, chs, idx, ret, tickets, errors, wg, goroutines,
                 started, copied, firstFailed, firstReported, drained>>

\* The drain after wg.Wait() receives a result.
FinalReceive ==
  /\ pc = "final"
  /\ Receive

\* len(errors) = 0 after wg.Wait(): return nil.
ReturnNil ==
  /\ pc = "final"
  /\ Len(errors) = 0
  /\ pc' = "returned"
  /\ ret' = NoError
  /\ UNCHANGED <<deleteVars, folderVars, chs, idx, tickets, errors, wg, goroutines,
                 started, copied, firstFailed, firstReported, drained>>

\* err := handler.copyObject() returns in one job goroutine.
CopyObjectReturns ==
  \E g \in At("copyObject") :
    /\ Becomes(g, Goroutine("tickets", copyObject(g.val)))
    /\ copied' = copied (+) One(g.val)
    /\ firstFailed' = IF firstFailed = NoError THEN copyObject(g.val)
                                               ELSE firstFailed
    /\ UNCHANGED <<deleteVars, folderVars, chs, idx, pc, ret, tickets, errors, wg,
                   started, firstReported, drained>>

\* Mutant of ReleaseTicket: a job whose copyObject failed goes on to report
\* its error without putting its ticket back.
ReleaseTicketOnSuccess ==
  \E g \in At("tickets") :
    /\ tickets < maxParallelJobsCount
    /\ tickets' = IF g.val = NoError THEN tickets + 1 ELSE tickets
    /\ Becomes(g, Goroutine("errors", g.val))
    /\ UNCHANGED <<deleteVars, folderVars, chs, idx, pc, ret, errors, wg,
                   started, copied, firstFailed, firstReported, drained>>

\* tickets <- nil
ReleaseTicket ==
  \E g \in At("tickets") :
    /\ tickets < maxParallelJobsCount
    /\ tickets' = tickets + 1
    /\ Becomes(g, Goroutine("errors", g.val))
    /\ UNCHANGED <<deleteVars, folderVars, chs, idx, pc, ret, errors, wg,
                   started, copied, firstFailed, firstReported, drained>>

\* errors <- err
ReportResult ==
  \E g \in At("errors") :
    /\ Len(errors) < ErrorsCap
    /\ errors' = Append(errors, g.val)
    /\ firstReported' = IF firstReported = NoError THEN g.val
                                                   ELSE firstReported
    /\ Becomes(g, Goroutine("Done", g.val))
    /\ UNCHANGED <<deleteVars, folderVars, chs, idx, pc, ret, tickets, wg,
                   started, copied, firstFailed, drained>>

\* defer wg.Done(), and the goroutine ends
Done ==
  \E g \in At("Done") :
    /\ wg' = wg - 1
    /\ goroutines' = goroutines (-) One(g)
    /\ UNCHANGED <<deleteVars, folderVars, chs, idx, pc, ret, tickets, errors,
                   started, copied, firstFailed, firstReported, drained>>

NextInfos ==
  \/ DrainReceive
  \/ DrainEmpty
  \/ Admit
  \/ Wait
  \/ FinalReceive
  \/ ReturnNil
  \/ CopyObjectReturns
  \/ ReleaseTicket
  \/ ReportResult
  \/ Done

SpecInfos == InitInfos /\ [][NextInfos]_vars

(***************************************************************************)
(* Properties of Infos.                                                    *)
(***************************************************************************)
\* Number of job goroutines at the given position.
CountAt(at) == BagCardinality([g \in At(at) |-> CopiesIn(g, goroutines)])

\* The bag of the elements of a sequence.
SeqToBag(s) ==
  [v \in {s[i] : i \in DOMAIN s} |-> Cardinality({i \in DOMAIN s : s[i] = v})]

\* The bag of the handlers of the goroutines that are inside copyObject.
Copying == [v \in {g.val : g \in At("copyObject")} |->
              CopiesIn(Goroutine("copyObject", v), goroutines)]

\* C1: at every moment of a run of Infos at most 8 job goroutines are
\* inside copyObject, whatever the number of jobs and the interleaving.
C1_AtMostEightTransfers == CountAt("copyObject") <= 8

\* C1 witness: a list of more than 8 jobs, 8 of them inside copyObject, and
\* Infos blocked on <-tickets for the next one.
C1_Witness ==
  /\ CountAt("copyObject") = 8
  /\ pc = "tickets"
  /\ tickets = 0
  /\ idx < Len(chs)

\* C2: Infos is never stuck before it returns: as long as it has not
\* returned, Infos or one of the job goroutines can take a step (every
\* outstanding job can report its result and the final join completes).
C2_InfosNeverStuck == pc # "returned" => ENABLED NextInfos

\* C3: when Infos has returned, it returned nil if and only if every job of
\* the list was started, every job's copyObject returned exactly once, and
\* no job failed; and if any job's copyObject returned an error, the value
\* returned is not nil.
C3_NilIffAllSucceeded ==
  pc = "returned" =>
    /\ ret = NoError <=>
         /\ started = chs
         /\ copied = SeqToBag(chs)
         /\ goroutines = EmptyBag
         /\ \A i \in DOMAIN chs : chs[i] = NoError
    /\ firstFailed # NoError => ret # NoError

\* C3 witness: Infos returned nil for a list longer than the ticket pool.
C3_Witness ==
  /\ pc = "returned"
  /\ ret = NoError
  /\ Len(chs) > maxParallelJobsCount

\* C4 (as stated): whenever a new job is started, every job whose transfer
\* has already finished finished without error.
C4_NoStartAfterFailedTransfer ==
  [][idx' = idx + 1 => firstFailed = NoError]_vars

\* C4 (amended): whenever a new job is started, every result Infos has
\* received from the errors channel so far is nil; and once Infos has
\* received an error it has returned that error.
C4_NoStartAfterReceivedError ==
  /\ [][idx' = idx + 1 => \A i \in DOMAIN drained : drained[i] = NoError]_vars
  /\ [](\A i \in DOMAIN drained :
          drained[i] # NoError => pc = "returned" /\ ret = drained[i])

\* C4 witness: a job was started after Infos received a (nil) result, while
\* another job's transfer had already failed and Infos had not returned.
C4_Witness ==
  /\ Len(drained) >= 1
  /\ idx > Len(drained) + 1
  /\ firstFailed # NoError
  /\ pc = "drain"

\* C5 (as stated): a non-nil error returned by Infos is the error of the
\* job whose transfer failed first.
C5_ReturnsFirstFailedTransfer ==
  (pc = "returned" /\ ret # NoError) => ret = firstFailed

\* C5 (amended): a non-nil error returned by Infos is the own error of one
\* started job, and it is the first error that was sent to the errors
\* channel.
C5_ReturnsFirstReportedError ==
  (pc = "returned" /\ ret # NoError) =>
    /\ \E i \in 1..idx : chs[i] = ret /\ copyObject(chs[i]) = ret
    /\ ret = firstReported

\* C5 witness: Infos returned the error of a job whose transfer was not the
\* first to fail.
C5_Witness ==
  /\ pc = "returned"
  /\ ret # NoError
  /\ ret # firstFailed

\* C6: the jobs started so far are a prefix of the job list, in list order,
\* every job goroutine belongs to one of them, and the prefix stops growing
\* once Infos has returned.
C6_AdmittedInListOrder ==
  /\ [](/\ started = SubSeq(chs, 1, idx)
        /\ SeqToBag(started) = copied (+) Copying)
  /\ [][pc = "returned" => started' = started]_vars

\* C6 witness: Infos returned early, with jobs of the list never started
\* and started jobs still running.
C6_Witness ==
  /\ pc = "returned"
  /\ idx < Len(chs)
  /\ CountAt("copyObject") > 0

(***************************************************************************)
(* The S3 bucket behind the Folder.  A string is a sequence of characters; *)
(* a key of the bucket is folder.path followed by a relative name.  The    *)
(* bucket keeps, for every key, its revisions, newest first: a revision is *)
(* an object version or a delete marker and has a version id.             *)
(***************************************************************************)
\* folder.path
Path == <<"d", "/">>

\* The relative names of the model, in the order S3 lists keys.
RelNames == << <<"a">>, <<"a", "b">>, <<"b">> >>

KeyOrder == [i \in DOMAIN RelNames |-> Path \o RelNames[i]]

AllKeys == {KeyOrder[i] : i \in DOMAIN KeyOrder}

HasPrefix(str, prefix) ==
  /\ Len(prefix) <= Len(str)
  /\ SubSeq(str, 1, Len(prefix)) = prefix

Revision(v, marker) == [VersionId |-> v, IsDeleteMarker |-> marker]

ObjectIdentifier(key, v) == [Key |-> key, VersionId |-> v]

\* s1 \o s2 \o ... for the sequences ss[lo], ..., ss[hi].
RECURSIVE Concat(_, _, _)
Concat(ss, lo, hi) ==
  IF lo > hi THEN <<>>
  ELSE IF lo = hi THEN ss[lo]
  ELSE LET mid == (lo + hi) \div 2
       IN  Concat(ss, lo, mid) \o Concat(ss, mid + 1, hi)

Flatten(ss) == Concat(ss, 1, Len(ss))

EmptyStore == [k \in AllKeys |-> <<>>]

\* A bucket that was never versioned: one revision a key, version id "null".
PlainStore ==
  [k \in AllKeys |->
     IF k = Path \o <<"b">> THEN <<>> ELSE <<Revision(0, FALSE)>>]

\* A versioned bucket: two versions of d/a, a deleted d/ab, one version of d/b.
VersionedStore ==
  [k \in AllKeys |->
     IF k = Path \o <<"a">> THEN <<Revision(2, FALSE), Revision(1, FALSE)>>
     ELSE IF k = Path \o <<"a", "b">> THEN <<Revision(4, TRUE), Revision(3, FALSE)>>
     ELSE <<Revision(5, FALSE)>>]

\* The bucket's versioning status and the contents it can have with it.
Buckets ==
  ({""} \X {EmptyStore, PlainStore})
    \cup ({"Enabled", "Suspended"} \X {EmptyStore, PlainStore, VersionedStore})

\* s3API.ListObjectVersions(Prefix: prefix): an error, or one response with
\* the first pageLimit revisions under the prefix, in listing order (by key,
\* then newest first), the object versions and the delete markers apart.
ListObjectVersions(prefix) ==
  LET perKey == [i \in DOMAIN KeyOrder |->
                   IF HasPrefix(KeyOrder[i], prefix)
                     THEN [j \in DOMAIN store[KeyOrder[i]] |->
                             [Key |-> KeyOrder[i],
                              VersionId |-> store[KeyOrder[i]][j].VersionId,
                              IsDeleteMarker |-> store[KeyOrder[i]][j].IsDeleteMarker]]
                     ELSE <<>>]
      all    == Flatten(perKey)
      page   == SubSeq(all, 1, Min(pageLimit, Len(all)))
      IsVersion(r) == ~r.IsDeleteMarker
      IsMarker(r)  == r.IsDeleteMarker
  IN  IF prefix \in listFails
        THEN [err |-> TRUE, Versions |-> <<>>, DeleteMarkers |-> <<>>]
        ELSE [err |-> FALSE,
              Versions |-> SelectSeq(page, IsVersion),
              DeleteMarkers |-> SelectSeq(page, IsMarker)]

\* s3API.GetBucketVersioning: an error, or the bucket's status.
GetBucketVersioning ==
  [err |-> versioningQueryFails, Status |-> bucketStatus]

\* What a successful s3API.DeleteObjects leaves of the bucket.  An
\* identifier with a version id removes that revision.  One without a
\* version id removes the key's "null" revision in a bucket that is not
\* versioned; puts a delete marker with a new version id on top of the key
\* when versioning is enabled; replaces the "null" revision by a "null"
\* delete marker when versioning is suspended.
AfterDelete(st, objects) ==
  LET ids == {objects[i] : i \in DOMAIN objects}
      all == UNION {{st[k][j].VersionId : j \in DOMAIN st[k]} : k \in DOMAIN st}
      top == IF all = {} THEN 0 ELSE CHOOSE y \in all : \A z \in all : z <= y
      Plain(k) == Cardinality({i \in DOMAIN objects :
                                 objects[i] = ObjectIdentifier(k, NoVersionId)})
      Gone(k, r) ==
        \/ ObjectIdentifier(k, r.VersionId) \in ids
        \/ r.VersionId = 0 /\ Plain(k) > 0 /\ bucketStatus # "Enabled"
      Kept(k) == LET Stays(r) == ~Gone(k, r) IN SelectSeq(st[k], Stays)
      Markers(k) ==
        IF Plain(k) = 0 \/ bucketStatus = "" THEN <<>>
        ELSE IF bucketStatus = "Suspended" THEN <<Revision(0, TRUE)>>
        ELSE [j \in 1..Plain(k) |-> Revision(top + Plain(k) + 1 - j, TRUE)]
  IN  [k \in DOMAIN st |-> Markers(k) \o Kept(k)]

(***************************************************************************)
(* Folder.DeleteObjects and what it calls.                                 *)
(***************************************************************************)
\* partitionStrings(strings, blockSize): consecutive blocks of blockSize
\* strings, the last one possibly shorter.
partitionStrings(strings, blockSize) ==
  [k \in 1..((Len(strings) + blockSize - 1) \div blockSize) |->
     SubSeq(strings, (k - 1) * blockSize + 1, Min(k * blockSize, Len(strings)))]

\* folder.isVersioningEnabled(): the value returned, and
\* folder.config.EnableVersioning after the call.
isVersioningEnabled ==
  CASE EnableVersioning = "enabled" ->
         [result |-> TRUE, config |-> EnableVersioning]
    [] EnableVersioning = "disabled" ->
         [result |-> FALSE, config |-> EnableVersioning]
    [] EnableVersioning = "" ->
         IF GetBucketVersioning.err
           THEN [result |-> FALSE, config |-> EnableVersioning]
           ELSE IF GetBucketVersioning.Status = "Enabled"
             THEN [result |-> TRUE, config |-> "enabled"]
             ELSE [result |-> FALSE, config |-> "disabled"]

\* folder.getObjectVersions(key)
getObjectVersions(key) ==
  LET out == ListObjectVersions(Path \o key)
      Id(r) == ObjectIdentifier(r.Key, r.VersionId)
  IN  IF out.err
        THEN [list |-> <<>>, err |-> TRUE]
        ELSE [list |-> [i \in DOMAIN out.Versions |-> Id(out.Versions[i])]
                         \o [i \in DOMAIN out.DeleteMarkers |->
                               Id(out.DeleteMarkers[i])],
              err |-> FALSE]

\* Mutant of partitionToObjects: without versioning the identifier carries
\* the relative path, not folder.path + key.
partitionToObjectsWithoutPath(keys, versioningEnabled) ==
  Flatten([i \in DOMAIN keys |->
             IF versioningEnabled
               THEN getObjectVersions(keys[i]).list
               ELSE <<ObjectIdentifier(keys[i], NoVersionId)>>])

\* folder.partitionToObjects(keys, versioningEnabled): a failed listing is
\* logged, and nothing is appended for its key.
partitionToObjects(keys, versioningEnabled) ==
  Flatten([i \in DOMAIN keys |->
             IF versioningEnabled
               THEN getObjectVersions(keys[i]).list
               ELSE <<ObjectIdentifier(Path \o keys[i], NoVersionId)>>])

\* The lists of relative paths DeleteObjects is called with: every list of
\* up to MaxPaths names, and long lists that go through the names in turn.
LongList(n) == [i \in 1..n |-> RelNames[((i - 1) % Len(RelNames)) + 1]]

DeleteInputs ==
  UNION {[1..n -> {RelNames[i] : i \in DOMAIN RelNames}] : n \in 0..MaxPaths}
    \cup {LongList(k * DeleteBatchSize + r) :
            k \in 1..MaxFullParts, r \in {1, DeleteBatchSize \div 2}}

InitDelete ==
  /\ IdleInfos
  /\ IdleFolder
  /\ EnableVersioning \in {"", "enabled", "disabled"}
  /\ \E b \in Buckets : bucketStatus = b[1] /\ store = b[2]
  /\ versioningQueryFails \in BOOLEAN
  /\ listFails \in {{}, {Path \o <<"a">>}}
  /\ pageLimit \in {1, MaxPage}
  /\ objectRelativePaths = <<>>
  /\ dpc = "idle"
  /\ needsVersioning = FALSE
  /\ parts = <<>>
  /\ calls = <<>>
  /\ dret = [failed |-> FALSE, part |-> <<>>]
  /\ store0 = store

\* parts := partitionStrings(objectRelativePaths, 1000)
\* needsVersioning := folder.isVersioningEnabled()
DeleteObjects ==
  \E paths \in DeleteInputs :
    /\ dpc = "idle"
    /\ objectRelativePaths' = paths
    /\ parts' = partitionStrings(paths, DeleteBatchSize)
    /\ needsVersioning' = isVersioningEnabled.result
    /\ EnableVersioning' = isVersioningEnabled.config
    /\ dpc' = "parts"
    /\ store0' = store
    /\ UNCHANGED <<infosVars, folderVars, backendVars, calls, dret>>

\* The record of one s3API.DeleteObjects call: the part it was made for,
\* the identifiers it carried, and whether the backend answered an error.
Call(part, objects, failed) ==
  [part |-> part, Objects |-> objects, failed |-> failed]

\* One iteration of "for _, part := range parts" whose call succeeds.
DeletePartSucceeds ==
  /\ dpc = "parts"
  /\ parts # <<>>
  /\ LET part    == Head(parts)
         objects == partitionToObjects(part, needsVersioning)
     IN  /\ calls' = Append(calls, Call(part, objects, FALSE))
         /\ store' = AfterDelete(store, objects)
  /\ parts' = Tail(parts)
  /\ UNCHANGED <<infosVars, folderVars, EnableVersioning, bucketStatus,
                 versioningQueryFails, listFails, pageLimit,
                 objectRelativePaths, dpc, needsVersioning, dret, store0>>

\* Mutant of DeletePartFails: the error is dropped and the loop goes on.
DeletePartFailsAndGoesOn ==
  /\ dpc = "parts"
  /\ parts # <<>>
  /\ LET part    == Head(parts)
         objects == partitionToObjects(part, needsVersioning)
     IN  calls' = Append(calls, Call(part, objects, TRUE))
  /\ parts' = Tail(parts)
  /\ UNCHANGED <<infosVars, folderVars, EnableVersioning, backendVars,
                 objectRelativePaths, dpc, needsVersioning, dret, store0>>

\* One iteration whose call fails:
\* return errors.Wrapf(err, "failed to delete s3 object: '%s'", part)
DeletePartFails ==
  /\ dpc = "parts"
  /\ parts # <<>>
  /\ LET part    == Head(parts)
         objects == partitionToObjects(part, needsVersioning)
     IN  /\ calls' = Append(calls, Call(part, objects, TRUE))
         /\ dret' = [failed |-> TRUE, part |-> part]
  /\ dpc' = "returned"
  /\ UNCHANGED <<infosVars, folderVars, EnableVersioning, backendVars,
                 objectRelativePaths, needsVersioning, parts, store0>>

\* The loop is over: return nil
DeleteReturnsNil ==
  /\ dpc = "parts"
  /\ parts = <<>>
  /\ dret' = [failed |-> FALSE, part |-> <<>>]
  /\ dpc' = "returned"
  /\ UNCHANGED <<infosVars, folderVars, EnableVersioning, backendVars,
                 objectRelativePaths, needsVersioning, parts, calls, store0>>

NextDelete ==
  \/ DeleteObjects
  \/ DeletePartSucceeds
  \/ DeletePartFails
  \/ DeleteReturnsNil

SpecDelete == InitDelete /\ [][NextDelete]_vars

(***************************************************************************)
(* Properties of Folder.DeleteObjects.                                     *)
(***************************************************************************)
\* Every identifier carried by a backend delete call so far.
Sent ==
  UNION {{calls[c].Objects[m] : m \in DOMAIN calls[c].Objects} : c \in DOMAIN calls}

\* The keys DeleteObjects was asked to delete.
RequestedKeys == {Path \o objectRelativePaths[i] : i \in DOMAIN objectRelativePaths}

\* C7: every backend delete call carries at most 1000 object identifiers,
\* with versioning disabled and with versioning enabled.
C7_CallsCarryAtMost1000 ==
  \A c \in DOMAIN calls : Len(calls[c].Objects) <= 1000

\* C8: with versioning enabled, when DeleteObjects has returned nil, every
\* version and every delete marker each requested key had when DeleteObjects
\* was called was carried, as (key, version id), by some backend delete call.
C8_EveryRevisionSent ==
  (dpc = "returned" /\ ~dret.failed /\ needsVersioning) =>
    \A k \in RequestedKeys : \A j \in DOMAIN store0[k] :
      ObjectIdentifier(k, store0[k][j].VersionId) \in Sent

\* C9: every identifier sent to the backend has the key of a requested
\* relative path (folder.path followed by the path), also with versioning.
C9_OnlyRequestedKeysSent ==
  \A id \in Sent : id.Key \in RequestedKeys

\* C10: the k-th backend delete call is made for the k-th part, once; a
\* call that failed is the last one made, and DeleteObjects has returned an
\* error that names the part of that call.
C10_FailedPartAborts ==
  \A k \in DOMAIN calls :
    /\ k <= Len(partitionStrings(objectRelativePaths, DeleteBatchSize))
    /\ calls[k].part = partitionStrings(objectRelativePaths, DeleteBatchSize)[k]
    /\ calls[k].failed =>
         /\ k = Len(calls)
         /\ dpc = "returned"
         /\ dret = [failed |-> TRUE, part |-> calls[k].part]

\* C10 witness: the second backend delete call failed after the first one
\* succeeded, and DeleteObjects returned the error.
C10_Witness ==
  /\ Len(calls) = 2
  /\ ~calls[1].failed
  /\ calls[2].failed
  /\ dpc = "returned"
  /\ dret.failed

\* C11: with versioning not in use and no backend failure, DeleteObjects on
\* n paths returns after exactly ceil(n/1000) backend delete calls, each of
\* 1000 identifiers except possibly the last, and the identifiers of the
\* calls, in call order, are the input list with folder.path put before each
\* path and no version id.
C11_PlainDeleteChunks ==
  (dpc = "returned" /\ ~dret.failed /\ ~needsVersioning) =>
    LET n == Len(objectRelativePaths)
    IN  /\ Len(calls) = (n + 999) \div 1000
        /\ \A k \in DOMAIN calls :
             Len(calls[k].Objects) =
               IF k < Len(calls) THEN 1000 ELSE n - 1000 * (k - 1)
        /\ Flatten([k \in DOMAIN calls |-> calls[k].Objects]) =
             [i \in 1..n |->
                ObjectIdentifier(Path \o objectRelativePaths[i], NoVersionId)]

\* C11 witness: 2500 paths were deleted without versioning in three calls,
\* the last one of 500 identifiers.
C11_Witness ==
  /\ dpc = "returned"
  /\ ~dret.failed
  /\ ~needsVersioning
  /\ Len(objectRelativePaths) = 2500
  /\ Len(calls) = 3
  /\ Len(calls[3].Objects) = 500

(***************************************************************************)
(* Folders and the Config objects they are built from.  A Folder holds a   *)
(* pointer to its Config (config *Config): configs is the heap of the      *)
(* Config objects and a Folder is its path and the Config it points to.    *)
(* The bucket of these Folders holds, besides the keys d/a, d/ab and d/b,  *)
(* the key of the Folder's own path and the keys of a sub-folder.          *)
(***************************************************************************)
ConfigIds == 1..MaxConfigs

\* VersioningDefault, VersioningEnabled, VersioningDisabled
VersioningModes == {"", "enabled", "disabled"}

Config(mode) == [EnableVersioning |-> mode]

Folder(path, config) == [path |-> path, config |-> config]

\* strings.TrimPrefix(s, prefix)
TrimPrefix(str, prefix) ==
  IF HasPrefix(str, prefix) THEN SubSeq(str, Len(prefix) + 1, Len(str)) ELSE str

\* storage.AddDelimiterToPath(path): the path, ending with the delimiter.
AddDelimiterToPath(path) ==
  IF path # <<>> /\ path[Len(path)] = "/" THEN path ELSE Append(path, "/")

\* storage.JoinPath(prefix, relativePath): a sub-folder's prefix is
\* prefix + relativePath + "/".
JoinPath(prefix, relativePath) == prefix \o relativePath

\* NewFolder(s3API, uploader, path, config)
NewFolder(path, config) ==
  Folder(AddDelimiterToPath(TrimPrefix(path, <<"/">>)), config)

\* folder.GetSubFolder(subFolderRelativePath)
GetSubFolder(folder, subFolderRelativePath) ==
  NewFolder(Append(JoinPath(folder.path, subFolderRelativePath), "/"),
            folder.config)

\* folder.GetPath()
GetPath(folder) == folder.path

\* folder.config.EnableVersioning
ModeOf(folder) == configs[folder.config].EnableVersioning

\* Mutant of isVersioningEnabledWith: the bucket is asked whatever the mode
\* is, and the mode is set from its answer.
isVersioningEnabledAlwaysQuerying(mode) ==
  IF GetBucketVersioning.err
    THEN [result |-> FALSE, config |-> mode,
          calls |-> <<"GetBucketVersioning">>]
    ELSE IF GetBucketVersioning.Status = "Enabled"
      THEN [result |-> TRUE, config |-> "enabled",
            calls |-> <<"GetBucketVersioning">>]
      ELSE [result |-> FALSE, config |-> "disabled",
            calls |-> <<"GetBucketVersioning">>]

\* folder.isVersioningEnabled() when folder.config.EnableVersioning is mode:
\* the value returned, folder.config.EnableVersioning after the call, and
\* the backend calls issued.
isVersioningEnabledWith(mode) ==
  CASE mode = "enabled" ->
         [result |-> TRUE, config |-> mode, calls |-> <<>>]
    [] mode = "disabled" ->
         [result |-> FALSE, config |-> mode, calls |-> <<>>]
    [] mode = "" ->
         IF GetBucketVersioning.err
           THEN [result |-> FALSE, config |-> mode,
                 calls |-> <<"GetBucketVersioning">>]
           ELSE IF GetBucketVersioning.Status = "Enabled"
             THEN [result |-> TRUE, config |-> "enabled",
                   calls |-> <<"GetBucketVersioning">>]
             ELSE [result |-> FALSE, config |-> "disabled",
                   calls |-> <<"GetBucketVersioning">>]

(***************************************************************************)
(* Errors.  An error of the AWS SDK (awserr.Error) has a code; any other   *)
(* error has only its text.                                                *)
(***************************************************************************)
Nil == [kind |-> "nil"]

AwsError(code) == [kind |-> "awserr", Code |-> code]

OtherError(text) == [kind |-> "error", text |-> text]

\* storage.NewObjectNotFoundError(path)
NewObjectNotFoundError(path) == [kind |-> "ObjectNotFound", path |-> path]

\* errors.Wrapf(err, format, arg)
Wrapf(err, format, arg) ==
  [kind |-> "wrapped", cause |-> err, format |-> format, arg |-> arg]

\* Mutant of isAwsNotExist: only the code NotFound is taken for not-found.
isAwsNotExistNotFoundOnly(err) ==
  IF err.kind = "awserr" THEN err.Code = "NotFound" ELSE FALSE

\* isAwsNotExist(err)
isAwsNotExist(err) ==
  IF err.kind = "awserr"
    THEN err.Code = "NotFound" \/ err.Code = "NoSuchKey"
    ELSE FALSE

\* The codes with which a backend says that a key does not exist.
NotExistErrors == {AwsError("NotFound"), AwsError("NoSuchKey")}

\* Other failures of a backend call: an SDK error with another code, and an
\* error that is no SDK error (whatever its text).
OtherFailures == {AwsError("AccessDenied"), OtherError("NotFound")}

(***************************************************************************)
(* The bucket of the Folders and its listings.                             *)
(***************************************************************************)
\* The keys of the bucket, in the order S3 lists them: the key of the path
\* d/ itself, d/a, d/ab, d/b, and d/c/ and d/c/a under the sub-folder c.
ListKeyOrder ==
  <<Path>> \o KeyOrder \o <<Path \o <<"c", "/">>, Path \o <<"c", "/", "a">>>>

ListKeys == {ListKeyOrder[i] : i \in DOMAIN ListKeyOrder}

\* An object version, with its size, and a delete marker.
Version(v, size) == [VersionId |-> v, IsDeleteMarker |-> FALSE, Size |-> size]

DeleteMarker(v) == [VersionId |-> v, IsDeleteMarker |-> TRUE]

ListEmptyStore == [k \in ListKeys |-> <<>>]

\* A bucket that was never versioned, with zero-byte objects at d/ and d/c/.
ListPlainStore ==
  [k \in ListKeys |->
     CASE k = Path -> <<Version(0, 0)>>
       [] k = Path \o <<"a">> -> <<Version(0, 3)>>
       [] k = Path \o <<"a", "b">> -> <<>>
       [] k = Path \o <<"b">> -> <<Version(0, 5)>>
       [] k = Path \o <<"c", "/">> -> <<Version(0, 0)>>
       [] OTHER -> <<Version(0, 7)>>]

\* A versioned bucket: d/ was written and deleted, d/a has two versions,
\* d/ab was deleted, the other keys have one version.
ListVersionedStore ==
  [k \in ListKeys |->
     CASE k = Path -> <<DeleteMarker(7), Version(6, 0)>>
       [] k = Path \o <<"a">> -> <<Version(2, 4), Version(1, 3)>>
       [] k = Path \o <<"a", "b">> -> <<DeleteMarker(4), Version(3, 2)>>
       [] k = Path \o <<"b">> -> <<Version(5, 5)>>
       [] k = Path \o <<"c", "/">> -> <<Version(8, 0)>>
       [] OTHER -> <<Version(9, 7)>>]

\* The bucket's versioning status and the contents it can have with it.
ListBuckets ==
  ({""} \X {ListEmptyStore, ListPlainStore})
    \cup ({"Enabled", "Suspended"}
            \X {ListEmptyStore, ListPlainStore, ListVersionedStore})

\* The part of a key up to its first delimiter after the prefix: the common
\* prefix a listing with Delimiter "/" rolls the key up into (<<>> if the
\* key has no delimiter after the prefix).
CommonPrefix(key, prefix) ==
  LET at == {i \in (Len(prefix) + 1)..Len(key) : key[i] = "/"}
  IN  IF at = {} THEN <<>>
      ELSE SubSeq(key, 1, CHOOSE i \in at : \A j \in at : i <= j)

\* The revisions of a key a listing shows: all of them for a listing of
\* versions, the current object (if the key is not deleted) otherwise.
Listed(key, versions) ==
  IF versions THEN store[key]
  ELSE IF store[key] # <<>> /\ ~store[key][1].IsDeleteMarker
    THEN <<store[key][1]>>
    ELSE <<>>

\* The entries of a listing of the prefix with Delimiter "/", in listing
\* order: one per common prefix, and one per shown revision of the other
\* keys under the prefix.
ListEntries(prefix, versions) ==
  Flatten([i \in DOMAIN ListKeyOrder |->
    LET key  == ListKeyOrder[i]
        cp   == CommonPrefix(key, prefix)
        revs == Listed(key, versions)
        Shown(j) == /\ HasPrefix(ListKeyOrder[j], prefix)
                    /\ Listed(ListKeyOrder[j], versions) # <<>>
    IN  IF ~Shown(i) THEN <<>>
        ELSE IF cp # <<>>
          THEN IF \E j \in 1..(i - 1) :
                    Shown(j) /\ CommonPrefix(ListKeyOrder[j], prefix) = cp
                 THEN <<>>
                 ELSE <<[type |-> "CommonPrefix", Prefix |-> cp]>>
          ELSE [j \in DOMAIN revs |->
                  IF revs[j].IsDeleteMarker
                    THEN [type |-> "DeleteMarker", Key |-> key,
                          VersionId |-> revs[j].VersionId, IsLatest |-> j = 1]
                    ELSE IF versions
                      THEN [type |-> "Version", Key |-> key,
                            VersionId |-> revs[j].VersionId,
                            IsLatest |-> j = 1, Size |-> revs[j].Size]
                      ELSE [type |-> "Object", Key |-> key,
                            Size |-> revs[j].Size]]])

\* The responses of a paginated listing: pageLimit entries a page, and one
\* empty page when there is nothing to list.
Paginate(entries) ==
  IF entries = <<>> THEN << <<>> >>
  ELSE [k \in 1..((Len(entries) + pageLimit - 1) \div pageLimit) |->
          SubSeq(entries, (k - 1) * pageLimit + 1,
                 Min(k * pageLimit, Len(entries)))]

OfType(entries, type) ==
  LET Is(e) == e.type = type IN SelectSeq(entries, Is)

\* One s3.ListObjectVersionsOutput.
ListObjectVersionsOutput(entries) ==
  [CommonPrefixes |-> OfType(entries, "CommonPrefix"),
   Versions |-> OfType(entries, "Version"),
   DeleteMarkers |-> OfType(entries, "DeleteMarker")]

\* One s3.ListObjectsV2Output (s3.ListObjectsOutput).
ListObjectsOutput(entries) ==
  [CommonPrefixes |-> OfType(entries, "CommonPrefix"),
   Contents |-> OfType(entries, "Object")]

\* s3API.ListObjectVersionsPages(Prefix, Delimiter "/"), whose request
\* number failAt (if not 0) the backend answers with the error err: the
\* pages handed to the callback, and the error returned.
ListObjectVersionsPages(prefix, failAt, err) ==
  LET all == Paginate(ListEntries(prefix, TRUE))
      got == IF failAt = 0 THEN all ELSE SubSeq(all, 1, failAt - 1)
  IN  [pages |-> [k \in DOMAIN got |-> ListObjectVersionsOutput(got[k])],
       err |-> IF failAt = 0 THEN Nil ELSE err]

\* s3API.ListObjectsV2Pages / ListObjectsPages(Prefix, Delimiter "/"): both
\* hand the same pages to listFunc.
ListObjectsPages(prefix, failAt, err) ==
  LET all == Paginate(ListEntries(prefix, FALSE))
      got == IF failAt = 0 THEN all ELSE SubSeq(all, 1, failAt - 1)
  IN  [pages |-> [k \in DOMAIN got |-> ListObjectsOutput(got[k])],
       err |-> IF failAt = 0 THEN Nil ELSE err]

(***************************************************************************)
(* Folder.ListFolder.  An Object is its name, its size and its additional  *)
(* info (the last-modified time is handed over as the backend gave it and  *)
(* is left out); a nil slice and an empty slice are both <<>>.             *)
(***************************************************************************)
\* storage.NewLocalObject(name, lastModified, size)
NewLocalObject(name, size) ==
  [name |-> name, size |-> size, additionalInfo |-> <<>>]

\* storage.NewLocalObjectWithAdditionalInfo(name, lastModified, size, info)
NewLocalObjectWithAdditionalInfo(name, size, additionalInfo) ==
  [name |-> name, size |-> size, additionalInfo |-> additionalInfo]

\* fmt.Sprintf("%s LATEST", versionId)
SprintfLatest(versionId) == <<versionId, " LATEST">>

\* The entries ListFolder makes objects of: those of the folder's own path
\* are left out (if *object.Key == folder.path { continue }).
WithoutSelf(folder, entries) ==
  LET Other(e) == e.Key # folder.path IN SelectSeq(entries, Other)

\* The sub-folders ListFolder makes of the common prefixes.
SubFoldersOf(folder, commonPrefixes) ==
  [i \in DOMAIN commonPrefixes |->
     NewFolder(commonPrefixes[i].Prefix, folder.config)]

\* listFunc(commonPrefixes, contents) of ListFolder, on one page.
listFunc(folder, out) ==
  LET Object(e) == NewLocalObject(TrimPrefix(e.Key, folder.path), e.Size)
      contents == WithoutSelf(folder, out.Contents)
  IN  [subFolders |-> SubFoldersOf(folder, out.CommonPrefixes),
       objects |-> [i \in DOMAIN contents |-> Object(contents[i])]]

\* Mutant of versionsListFunc: the entries of the folder's own path are not
\* left out.
versionsListFuncWithSelf(folder, out) ==
  LET Info(e) == IF e.IsLatest THEN SprintfLatest(e.VersionId)
                               ELSE <<e.VersionId>>
      OfVersion(e) ==
        NewLocalObjectWithAdditionalInfo(TrimPrefix(e.Key, folder.path),
                                         e.Size, Info(e))
      OfMarker(e) ==
        NewLocalObjectWithAdditionalInfo(TrimPrefix(e.Key, folder.path),
                                         0, Info(e))
  IN  [subFolders |-> SubFoldersOf(folder, out.CommonPrefixes),
       objects |-> [i \in DOMAIN out.Versions |-> OfVersion(out.Versions[i])]
                     \o [i \in DOMAIN out.DeleteMarkers |->
                           OfMarker(out.DeleteMarkers[i])]]

\* Mutant of versionsListFunc: the latest revision is tagged like the
\* others, with its raw version id.
versionsListFuncUntagged(folder, out) ==
  LET OfVersion(e) ==
        NewLocalObjectWithAdditionalInfo(TrimPrefix(e.Key, folder.path),
                                         e.Size, <<e.VersionId>>)
      OfMarker(e) ==
        NewLocalObjectWithAdditionalInfo(TrimPrefix(e.Key, folder.path),
                                         0, <<e.VersionId>>)
      versions == WithoutSelf(folder, out.Versions)
      markers  == WithoutSelf(folder, out.DeleteMarkers)
  IN  [subFolders |-> SubFoldersOf(folder, out.CommonPrefixes),
       objects |-> [i \in DOMAIN versions |-> OfVersion(versions[i])]
                     \o [i \in DOMAIN markers |-> OfMarker(markers[i])]]

\* versionsListFunc(out, _) of listVersions, on one page.
versionsListFunc(folder, out) ==
  LET Info(e) == IF e.IsLatest THEN SprintfLatest(e.VersionId)
                               ELSE <<e.VersionId>>
      OfVersion(e) ==
        NewLocalObjectWithAdditionalInfo(TrimPrefix(e.Key, folder.path),
                                         e.Size, Info(e))
      OfMarker(e) ==
        NewLocalObjectWithAdditionalInfo(TrimPrefix(e.Key, folder.path),
                                         0, Info(e))
      versions == WithoutSelf(folder, out.Versions)
      markers  == WithoutSelf(folder, out.DeleteMarkers)
  IN  [subFolders |-> SubFoldersOf(folder, out.CommonPrefixes),
       objects |-> [i \in DOMAIN versions |-> OfVersion(versions[i])]
                     \o [i \in DOMAIN markers |-> OfMarker(markers[i])]]

\* What the callback has appended after the pages handed to it.
Appended(perPage) ==
  [objects |-> Flatten([k \in DOMAIN perPage |-> perPage[k].objects]),
   subFolders |-> Flatten([k \in DOMAIN perPage |-> perPage[k].subFolders])]

\* Mutant of listVersions: a not-found answer is returned as an error like
\* any other.
listVersionsFailingOnNotExist(folder, failAt, err) ==
  LET listing == ListObjectVersionsPages(folder.path, failAt, err)
      got == Appended([k \in DOMAIN listing.pages |->
                         versionsListFunc(folder, listing.pages[k])])
  IN  IF listing.err # Nil
        THEN [objects |-> <<>>, subFolders |-> <<>>,
              err |-> Wrapf(listing.err, "failed to list s3 folder: '%s'",
                            folder.path)]
        ELSE [objects |-> got.objects, subFolders |-> got.subFolders,
              err |-> Nil]

\* folder.listVersions(prefix, delimiter)
listVersions(folder, failAt, err) ==
  LET listing == ListObjectVersionsPages(folder.path, failAt, err)
      got == Appended([k \in DOMAIN listing.pages |->
                         versionsListFunc(folder, listing.pages[k])])
  IN  IF listing.err # Nil /\ ~isAwsNotExist(listing.err)
        THEN [objects |-> <<>>, subFolders |-> <<>>,
              err |-> Wrapf(listing.err, "failed to list s3 folder: '%s'",
                            folder.path)]
        ELSE [objects |-> got.objects, subFolders |-> got.subFolders,
              err |-> Nil]

\* The branch of ListFolder without versioning.
listObjects(folder, failAt, err) ==
  LET listing == ListObjectsPages(folder.path, failAt, err)
      got == Appended([k \in DOMAIN listing.pages |->
                         listFunc(folder, listing.pages[k])])
  IN  IF listing.err # Nil /\ ~isAwsNotExist(listing.err)
        THEN [objects |-> <<>>, subFolders |-> <<>>,
              err |-> Wrapf(listing.err, "failed to list s3 folder: '%s'",
                            folder.path)]
        ELSE [objects |-> got.objects, subFolders |-> got.subFolders,
              err |-> Nil]

\* folder.ListFolder(), on the Folder folders[f].  The backend answers the
\* listing's request number failAt (if not 0) with the error err.
ListFolder ==
  \E f \in DOMAIN folders :
    LET folder   == folders[f]
        v        == isVersioningEnabledWith(ModeOf(folder))
        requests == Len(Paginate(ListEntries(folder.path, v.result)))
    IN  \E failAt \in 0..requests, err \in NotExistErrors \cup OtherFailures :
          /\ configs' = [configs EXCEPT ![folder.config].EnableVersioning = v.config]
          /\ op' = [name |-> "ListFolder",
                    folder |-> f,
                    versioned |-> v.result,
                    calls |-> Append(v.calls,
                                     IF v.result THEN "ListObjectVersionsPages"
                                                 ELSE "ListObjectsV2Pages"),
                    pages |-> IF v.result
                                THEN ListObjectVersionsPages(folder.path, failAt, err)
                                ELSE ListObjectsPages(folder.path, failAt, err),
                    result |-> IF v.result
                                 THEN listVersions(folder, failAt, err)
                                 ELSE listObjects(folder, failAt, err)]
          /\ UNCHANGED <<infosVars, deleteVars, folders, copying>>

(***************************************************************************)
(* Building Folders and setting their versioning mode.                     *)
(***************************************************************************)
\* The paths NewFolder is called with.
NewFolderPaths == {<<"d">>, <<"/", "d", "/", "c", "/">>}

\* The relative paths GetSubFolder is called with.
SubFolderPaths == {<<"c">>}

\* A call of NewFolder with one of the Config objects.
BuildFolder ==
  \E path \in NewFolderPaths, c \in ConfigIds :
    /\ Len(folders) < MaxFolders
    /\ folders' = Append(folders, NewFolder(path, c))
    /\ op' = [name |-> "NewFolder", folder |-> Len(folders) + 1, calls |-> <<>>]
    /\ UNCHANGED <<infosVars, deleteVars, configs, copying>>

\* A call of folder.GetSubFolder on the Folder folders[f].
BuildSubFolder ==
  \E f \in DOMAIN folders, path \in SubFolderPaths :
    /\ Len(folders) < MaxFolders
    /\ folders' = Append(folders, GetSubFolder(folders[f], path))
    /\ op' = [name |-> "GetSubFolder", folder |-> f, calls |-> <<>>]
    /\ UNCHANGED <<infosVars, deleteVars, configs, copying>>

\* folder.SetVersioningEnabled(enable), on the Folder folders[f]:
\* "enable && folder.isVersioningEnabled()" calls isVersioningEnabled only
\* when enable is true.
SetVersioningEnabled ==
  \E f \in DOMAIN folders, enable \in BOOLEAN :
    LET folder == folders[f]
        v      == isVersioningEnabledWith(ModeOf(folder))
    IN  /\ configs' =
             [configs EXCEPT ![folder.config].EnableVersioning =
                IF enable /\ v.result THEN "enabled" ELSE "disabled"]
        /\ op' = [name |-> "SetVersioningEnabled", folder |-> f,
                  enable |-> enable,
                  calls |-> IF enable THEN v.calls ELSE <<>>]
        /\ UNCHANGED <<infosVars, deleteVars, folders, copying>>

\* The variables of a call of DeleteObjects, when no such call is made.
IdleDeleteCall ==
  /\ EnableVersioning = ""
  /\ listFails = {}
  /\ objectRelativePaths = <<>>
  /\ dpc = "idle"
  /\ needsVersioning = FALSE
  /\ parts = <<>>
  /\ calls = <<>>
  /\ dret = [failed |-> FALSE, part |-> <<>>]
  /\ store0 = <<>>

InitVersioning ==
  /\ IdleInfos
  /\ IdleDeleteCall
  /\ configs \in [ConfigIds -> {Config(mode) : mode \in VersioningModes}]
  /\ folders = <<>>
  /\ op = NoOp
  /\ copying = {}
  /\ \E b \in {<<"", ListPlainStore>>, <<"Enabled", ListVersionedStore>>,
               <<"Suspended", ListVersionedStore>>} :
       bucketStatus = b[1] /\ store = b[2]
  /\ versioningQueryFails \in BOOLEAN
  /\ pageLimit = MaxPage

NextVersioning ==
  \/ BuildFolder
  \/ BuildSubFolder
  \/ SetVersioningEnabled
  \/ ListFolder

SpecVersioning == InitVersioning /\ [][NextVersioning]_vars

\* C12: after SetVersioningEnabled(enable) the versioning mode of the Folder
\* is enabled if enable is true and disabled if it is false, whatever the
\* mode was before and whatever the bucket's versioning status.
C12_SetVersioningOverrides ==
  op.name = "SetVersioningEnabled" =>
    ModeOf(folders[op.folder]) = IF op.enable THEN "enabled" ELSE "disabled"

\* C13: SetVersioningEnabled issues no backend call: no GetBucketVersioning
\* query is made during SetVersioningEnabled(true) or
\* SetVersioningEnabled(false), in any prior mode.
C13_SetVersioningQueriesNothing ==
  op.name = "SetVersioningEnabled" => op.calls = <<>>

\* C14: a call on one Folder (ListFolder resolving the mode lazily,
\* SetVersioningEnabled) leaves the versioning mode of every other Folder
\* as it was: its parent, its sub-folders, and the other Folders built from
\* the same Config.
C14_ModeScopedToFolder ==
  [][\A g \in DOMAIN folders :
       g # op'.folder => ModeOf(folders[g])' = ModeOf(folders[g])]_vars

(***************************************************************************)
(* Folder.Exists, Folder.ReadObject and Folder.CopyObject.  A backend call *)
(* is answered with a failure (fault), or, when there is none (Nil), by    *)
(* the bucket; a backend tells that a key does not exist with one of the   *)
(* codes of NotExistErrors (notExist).  Other clients write to the bucket  *)
(* between the calls and between the steps of CopyObject.                  *)
(***************************************************************************)
\* *folder.bucket
Bucket == <<"w">>

\* A key exists when its newest revision is an object version.
KeyExists(key) ==
  /\ key \in DOMAIN store
  /\ store[key] # <<>>
  /\ ~store[key][1].IsDeleteMarker

\* s3API.HeadObject, s3API.GetObject: the error of the answer.
ObjectAnswer(key, fault, notExist) ==
  IF fault # Nil THEN fault
  ELSE IF KeyExists(key) THEN Nil
  ELSE notExist

\* path.Join(elem...): the non-empty elements joined by "/", then cleaned:
\* a "/" followed by another "/", and a "/" at the end, are dropped.
PathJoin(elem) ==
  LET given  == SelectSeq(elem, LAMBDA e : e # <<>>)
      joined == Flatten([i \in DOMAIN given |->
                           IF i = 1 THEN given[i] ELSE <<"/">> \o given[i]])
      Stays(i) == ~(joined[i] = "/" /\ (i = Len(joined) \/ joined[i + 1] = "/"))
      kept   == SelectSeq([i \in DOMAIN joined |-> i], Stays)
  IN  [i \in DOMAIN kept |-> joined[kept[i]]]

\* The key a CopySource "bucket/key" names.
CopySourceKey(source) == TrimPrefix(source, Bucket \o <<"/">>)

\* folder.Exists(objectRelativePath)
Exists(folder, objectRelativePath, fault, notExist) ==
  LET objectPath == folder.path \o objectRelativePath
      err == ObjectAnswer(objectPath, fault, notExist)
  IN  IF err # Nil
        THEN IF isAwsNotExist(err)
               THEN [exists |-> FALSE, err |-> Nil]
               ELSE [exists |-> FALSE,
                     err |-> Wrapf(err, "failed to check s3 object '%s' existence",
                                   objectPath)]
        ELSE [exists |-> TRUE, err |-> Nil]

\* folder.ReadObject(objectRelativePath): the reader is the body of the
\* key's current version (read through a range reader when the Config asks
\* for it).
ReadObject(folder, objectRelativePath, fault, notExist) ==
  LET objectPath == folder.path \o objectRelativePath
      err == ObjectAnswer(objectPath, fault, notExist)
  IN  IF err # Nil
        THEN IF isAwsNotExist(err)
               THEN [reader |-> Nil, err |-> NewObjectNotFoundError(objectPath)]
               ELSE [reader |-> Nil,
                     err |-> Wrapf(err, "failed to read object: '%s' from S3",
                                   objectPath)]
        ELSE [reader |-> [Key |-> objectPath, Body |-> store[objectPath][1]],
              err |-> Nil]

\* Mutant of copyObjectCheck: a missing source is reported with the error
\* of Exists, which is nil.
copyObjectCheckReturningErr(folder, srcPath, fault, notExist) ==
  LET r == Exists(folder, srcPath, fault, notExist)
  IN  IF ~r.exists
        THEN [return |-> TRUE, err |-> r.err]
        ELSE [return |-> FALSE, err |-> Nil]

\* The head of CopyObject:
\* if exists, err := folder.Exists(srcPath); !exists { ... }
copyObjectCheck(folder, srcPath, fault, notExist) ==
  LET r == Exists(folder, srcPath, fault, notExist)
  IN  IF ~r.exists
        THEN IF r.err = Nil
               THEN [return |-> TRUE, err |-> NewObjectNotFoundError(srcPath)]
               ELSE [return |-> TRUE, err |-> r.err]
        ELSE [return |-> FALSE, err |-> Nil]

\* The relative paths the calls are made with, and the relative paths
\* CopyObject copies to.
ObjectPaths == {RelNames[i] : i \in DOMAIN RelNames}

TargetPaths == {<<"b">>}

\* What a write of the revision rev to the key leaves of a bucket that is
\* not versioned or whose versioning is suspended: the revision replaces the
\* key's "null" revision.
Written(key, rev) ==
  LET NotNull(r) == r.VersionId # 0
  IN  [store EXCEPT ![key] = <<rev>> \o SelectSeq(@, NotNull)]

\* A call of folder.Exists.
CallExists ==
  \E f \in DOMAIN folders, path \in ObjectPaths,
     fault \in {Nil} \cup OtherFailures, notExist \in NotExistErrors :
    /\ op' = [name |-> "Exists", folder |-> f, path |-> path,
              fault |-> fault,
              present |-> KeyExists(folders[f].path \o path),
              calls |-> <<"HeadObject">>,
              result |-> Exists(folders[f], path, fault, notExist)]
    /\ UNCHANGED <<infosVars, deleteVars, configs, folders, copying>>

\* A call of folder.ReadObject.
CallReadObject ==
  \E f \in DOMAIN folders, path \in ObjectPaths,
     fault \in {Nil} \cup OtherFailures, notExist \in NotExistErrors :
    /\ op' = [name |-> "ReadObject", folder |-> f, path |-> path,
              fault |-> fault,
              present |-> KeyExists(folders[f].path \o path),
              calls |-> <<"GetObject">>,
              result |-> ReadObject(folders[f], path, fault, notExist)]
    /\ UNCHANGED <<infosVars, deleteVars, configs, folders, copying>>

\* folder.CopyObject(srcPath, dstPath) up to the existence check: it
\* returns there, or goes on to the backend copy.
CopyObjectChecks ==
  \E f \in DOMAIN folders, srcPath \in ObjectPaths, dstPath \in TargetPaths,
     fault \in {Nil} \cup OtherFailures, notExist \in NotExistErrors :
    LET check == copyObjectCheck(folders[f], srcPath, fault, notExist)
        call  == [folder |-> f, srcPath |-> srcPath, dstPath |-> dstPath]
    IN  IF check.return
          THEN /\ op' = [name |-> "CopyObject", folder |-> f,
                         srcPath |-> srcPath, dstPath |-> dstPath,
                         head |-> ObjectAnswer(folders[f].path \o srcPath,
                                               fault, notExist),
                         present |-> KeyExists(folders[f].path \o srcPath),
                         calls |-> <<"HeadObject">>,
                         result |-> check.err]
               /\ UNCHANGED <<infosVars, deleteVars, configs, folders, copying>>
          ELSE /\ call \notin copying
               /\ Cardinality(copying) < MaxCopying
               /\ copying' = copying \cup {call}
               /\ UNCHANGED <<infosVars, deleteVars, configs, folders, op>>

\* The rest of folder.CopyObject: the backend copy, whose error is returned.
CopyObjectCopies ==
  \E call \in copying, fault \in {Nil} \cup OtherFailures :
    LET folder == folders[call.folder]
        source == PathJoin(<<Bucket, folder.path, call.srcPath>>)
        dst    == PathJoin(<<folder.path, call.dstPath>>)
        err    == ObjectAnswer(CopySourceKey(source), fault, AwsError("NoSuchKey"))
    IN  /\ copying' = copying \ {call}
        /\ op' = [name |-> "CopyObject", folder |-> call.folder,
                  srcPath |-> call.srcPath, dstPath |-> call.dstPath,
                  head |-> Nil,
                  present |-> KeyExists(folder.path \o call.srcPath),
                  calls |-> <<"HeadObject", "CopyObject">>,
                  result |-> err]
        /\ store' = IF err = Nil
                      THEN Written(dst, Version(0, store[CopySourceKey(source)][1].Size))
                      ELSE store
        /\ UNCHANGED <<infosVars, EnableVersioning, bucketStatus,
                       versioningQueryFails, listFails, pageLimit,
                       objectRelativePaths, dpc, needsVersioning, parts, calls,
                       dret, store0, configs, folders>>

\* Another client of the bucket deletes a key: the key is gone from a
\* bucket that is not versioned, and gets a "null" delete marker in place of
\* its "null" revision when versioning is suspended.
OtherClientDeletes ==
  \E key \in {Path \o path : path \in ObjectPaths} :
    /\ KeyExists(key)
    /\ store' = IF bucketStatus = ""
                  THEN [store EXCEPT ![key] = <<>>]
                  ELSE Written(key, DeleteMarker(0))
    /\ UNCHANGED <<infosVars, EnableVersioning, bucketStatus,
                   versioningQueryFails, listFails, pageLimit,
                   objectRelativePaths, dpc, needsVersioning, parts, calls,
                   dret, store0, folderVars>>

InitObjects ==
  /\ IdleInfos
  /\ IdleDeleteCall
  /\ configs = [c \in ConfigIds |-> Config("")]
  /\ folders = <<NewFolder(<<"d">>, 1)>>
  /\ op = NoOp
  /\ copying = {}
  /\ \E b \in {<<"", ListEmptyStore>>, <<"", ListPlainStore>>,
               <<"Suspended", ListVersionedStore>>} :
       bucketStatus = b[1] /\ store = b[2]
  /\ versioningQueryFails = FALSE
  /\ pageLimit = MaxPage

NextObjects ==
  \/ CallExists
  \/ CallReadObject
  \/ CopyObjectChecks
  \/ CopyObjectCopies
  \/ OtherClientDeletes

SpecObjects == InitObjects /\ [][NextObjects]_vars

\* C15 (as stated): whenever the source key does not exist when CopyObject
\* makes its last backend call, and the existence check did not fail with
\* another error, CopyObject returns ObjectNotFound and has issued no
\* backend copy call, whatever other clients did to the key meanwhile; and
\* if the existence check fails with another error, that error is returned
\* and no backend copy call is issued.
C15_MissingSourceIsNotFound ==
  op.name = "CopyObject" =>
    /\ (~op.present /\ op.head \notin OtherFailures) =>
         /\ op.result = NewObjectNotFoundError(op.srcPath)
         /\ op.calls = <<"HeadObject">>
    /\ op.head \in OtherFailures =>
         /\ op.result.kind = "wrapped"
         /\ op.result.cause = op.head
         /\ op.calls = <<"HeadObject">>

\* C15 (amended): when the existence check of CopyObject finds the source
\* key absent, CopyObject returns ObjectNotFound and issues no backend copy
\* call; when the check fails with another error, that error is returned
\* and no backend copy call is issued; the backend copy call is issued only
\* after the check found the key, and CopyObject then returns what the
\* backend answers, as it is: if the key is gone by then, the backend's
\* error, not ObjectNotFound.
C15_MissingAtCheckIsNotFound ==
  op.name = "CopyObject" =>
    /\ (op.calls = <<"HeadObject">> /\ ~op.present /\ op.head \notin OtherFailures) =>
         op.result = NewObjectNotFoundError(op.srcPath)
    /\ op.head \in OtherFailures =>
         /\ op.result.kind = "wrapped"
         /\ op.result.cause = op.head
         /\ op.calls = <<"HeadObject">>
    /\ op.calls = <<"HeadObject">> => (~op.present \/ op.head \in OtherFailures)
    /\ op.calls # <<"HeadObject">> =>
         /\ op.calls = <<"HeadObject", "CopyObject">>
         /\ op.head = Nil
         /\ op.result.kind \in {"nil", "awserr", "error"}
         /\ ~op.present => op.result # Nil

\* C15 witness: CopyObject returned ObjectNotFound for a source key that was
\* absent at its existence check, without a backend copy call.
C15_Witness ==
  /\ op.name = "CopyObject"
  /\ ~op.present
  /\ op.result.kind = "ObjectNotFound"
  /\ op.calls = <<"HeadObject">>

\* C16: Exists on an absent key returns (false, nil) (and (true, nil) on a
\* key that exists); ReadObject on an absent key returns an ObjectNotFound
\* error naming the key; any other failure of the backend call makes Exists
\* return false with an error that wraps the failure, and ReadObject return
\* an error that wraps the failure and is no ObjectNotFound.
C16_NotFoundTranslation ==
  /\ op.name = "Exists" =>
       /\ (op.fault = Nil /\ ~op.present) =>
            op.result = [exists |-> FALSE, err |-> Nil]
       /\ (op.fault = Nil /\ op.present) =>
            op.result = [exists |-> TRUE, err |-> Nil]
       /\ op.fault # Nil =>
            /\ ~op.result.exists
            /\ op.result.err.kind = "wrapped"
            /\ op.result.err.cause = op.fault
  /\ op.name = "ReadObject" =>
       /\ (op.fault = Nil /\ ~op.present) =>
            op.result.err =
              NewObjectNotFoundError(folders[op.folder].path \o op.path)
       /\ (op.fault = Nil /\ op.present) => op.result.err = Nil
       /\ op.fault # Nil =>
            /\ op.result.err.kind = "wrapped"
            /\ op.result.err.cause = op.fault

\* C16 witness: ReadObject was called on a key that another client had
\* deleted, and returned ObjectNotFound.
C16_Witness ==
  /\ op.name = "ReadObject"
  /\ op.fault = Nil
  /\ ~op.present
  /\ op.result.err.kind = "ObjectNotFound"
  /\ store[folders[op.folder].path \o op.path] # <<>>

(***************************************************************************)
(* ListFolder on a Folder and its sub-folder, over every bucket, page size *)
(* and versioning mode.                                                    *)
(***************************************************************************)
InitList ==
  /\ IdleInfos
  /\ IdleDeleteCall
  /\ \E mode \in VersioningModes : configs = [c \in ConfigIds |-> Config(mode)]
  /\ folders = <<NewFolder(<<"d">>, 1),
                 GetSubFolder(NewFolder(<<"d">>, 1), <<"c">>)>>
  /\ op = NoOp
  /\ copying = {}
  /\ \E b \in ListBuckets : bucketStatus = b[1] /\ store = b[2]
  /\ versioningQueryFails \in BOOLEAN
  /\ pageLimit \in {1, 2, MaxPage}

NextList == ListFolder

SpecList == InitList /\ [][NextList]_vars

\* The keys of the entries the backend handed to the last ListFolder, in
\* the order the callback goes through them, and the common prefixes.
ListedKeys ==
  LET KeysOf(entries) == [i \in DOMAIN entries |-> entries[i].Key]
  IN  Flatten([k \in DOMAIN op.pages.pages |->
                 IF op.versioned
                   THEN KeysOf(op.pages.pages[k].Versions)
                          \o KeysOf(op.pages.pages[k].DeleteMarkers)
                   ELSE KeysOf(op.pages.pages[k].Contents)])

ListedPrefixes ==
  Flatten([k \in DOMAIN op.pages.pages |->
             [i \in DOMAIN op.pages.pages[k].CommonPrefixes |->
                op.pages.pages[k].CommonPrefixes[i].Prefix]])

\* The names ListFolder is to return for the listed keys: every key but the
\* folder's own path, without the path.
NamesToReturn ==
  LET path == folders[op.folder].path
      NotSelf(key) == key # path
      others == SelectSeq(ListedKeys, NotSelf)
  IN  [i \in DOMAIN others |-> SubSeq(others[i], Len(path) + 1, Len(others[i]))]

NamesReturned == [i \in DOMAIN op.result.objects |-> op.result.objects[i].name]

PathsReturned == [i \in DOMAIN op.result.subFolders |-> op.result.subFolders[i].path]

\* C17: ListFolder returns no Object for the key of the Folder's own path,
\* on any page, without versioning and with it (for versions and for delete
\* markers); and when it returns no error, the Objects returned are, in
\* order, those of the other entries the backend listed, each named by its
\* key without the path.
C17_SelfKeyExcluded ==
  op.name = "ListFolder" =>
    /\ \A i \in DOMAIN op.result.objects :
         /\ op.result.objects[i].name # <<>>
         /\ folders[op.folder].path \o op.result.objects[i].name
              \in ListKeys \ {folders[op.folder].path}
    /\ op.result.err = Nil => NamesReturned = NamesToReturn

\* C17 witness: a listing of versions in several pages, in which the
\* backend listed the Folder's own path as a version and as a delete
\* marker, and ListFolder returned Objects.
C17_Witness ==
  /\ op.name = "ListFolder"
  /\ op.versioned
  /\ op.result.err = Nil
  /\ Len(op.pages.pages) > 1
  /\ \E k \in DOMAIN op.pages.pages :
       \E i \in DOMAIN op.pages.pages[k].Versions :
         op.pages.pages[k].Versions[i].Key = folders[op.folder].path
  /\ \E k \in DOMAIN op.pages.pages :
       \E i \in DOMAIN op.pages.pages[k].DeleteMarkers :
         op.pages.pages[k].DeleteMarkers[i].Key = folders[op.folder].path
  /\ Len(op.result.objects) > 2

\* C18 (as stated): when the backend answers a listing with a not-found
\* error, ListFolder returns no error, no objects and no sub-folders; every
\* other listing error is returned as an error, with no objects and no
\* sub-folders.
C18_NotFoundListsNothing ==
  op.name = "ListFolder" =>
    /\ op.pages.err \in NotExistErrors =>
         op.result = [objects |-> <<>>, subFolders |-> <<>>, err |-> Nil]
    /\ op.pages.err \in OtherFailures =>
         /\ op.result.err # Nil
         /\ op.result.objects = <<>>
         /\ op.result.subFolders = <<>>

\* C18 (amended): when the backend answers a request of a listing with a
\* not-found error, ListFolder returns no error, and the objects and
\* sub-folders of the pages the backend handed over before that request:
\* none when it is the first request; every other listing error is returned
\* as an error that wraps it, with no objects and no sub-folders.
C18_NotFoundEndsListing ==
  op.name = "ListFolder" =>
    /\ op.pages.err \in NotExistErrors =>
         /\ op.result.err = Nil
         /\ NamesReturned = NamesToReturn
         /\ PathsReturned = ListedPrefixes
         /\ op.pages.pages = <<>> =>
              op.result = [objects |-> <<>>, subFolders |-> <<>>, err |-> Nil]
    /\ op.pages.err \in OtherFailures =>
         /\ op.result.err.kind = "wrapped"
         /\ op.result.err.cause = op.pages.err
         /\ op.result.objects = <<>>
         /\ op.result.subFolders = <<>>

\* C18 witness: the backend answered the first request of a listing of
\* versions with NoSuchKey, and ListFolder returned nothing and no error.
C18_Witness ==
  /\ op.name = "ListFolder"
  /\ op.versioned
  /\ op.pages.err = AwsError("NoSuchKey")
  /\ op.pages.pages = <<>>
  /\ op.result = [objects |-> <<>>, subFolders |-> <<>>, err |-> Nil]

\* The Objects a complete listing of versions of the Folder is to return:
\* one for every revision of every key of the bucket that is right under the
\* Folder's path (not the path itself, not under a sub-folder), tagged
\* "<version id> LATEST" if it is the key's newest revision and with the raw
\* version id otherwise, of size 0 if it is a delete marker.
ObjectsOfRevisions(path) ==
  LET Child(key) == /\ HasPrefix(key, path)
                    /\ key # path
                    /\ \A i \in (Len(path) + 1)..Len(key) : key[i] # "/"
      children == SelectSeq(ListKeyOrder, Child)
  IN  Flatten([c \in DOMAIN children |->
        [j \in DOMAIN store[children[c]] |->
           [name |-> SubSeq(children[c], Len(path) + 1, Len(children[c])),
            size |-> IF store[children[c]][j].IsDeleteMarker
                       THEN 0 ELSE store[children[c]][j].Size,
            additionalInfo |->
              IF j = 1 THEN <<store[children[c]][j].VersionId, " LATEST">>
                       ELSE <<store[children[c]][j].VersionId>>]]])

\* C19: with versioning enabled, a listing the backend answers to the end
\* makes ListFolder return exactly one Object for every version and every
\* delete marker right under the path: tagged "<version id> LATEST" if the
\* backend flags it latest, with its raw version id otherwise, and of size 0
\* for a delete marker.
C19_OneObjectPerRevision ==
  (op.name = "ListFolder" /\ op.versioned /\ op.pages.err = Nil) =>
    /\ op.result.err = Nil
    /\ SeqToBag(op.result.objects) =
         SeqToBag(ObjectsOfRevisions(folders[op.folder].path))

\* C19 witness: a listing of versions in pages of one entry returned, for
\* the key d/a with two versions, one Object tagged LATEST and one tagged
\* with the raw version id, and an Object of size 0 for a delete marker.
C19_Witness ==
  /\ op.name = "ListFolder"
  /\ op.versioned
  /\ op.pages.err = Nil
  /\ pageLimit = 1
  /\ \E i, j, k \in DOMAIN op.result.objects :
       /\ op.result.objects[i] =
            [name |-> <<"a">>, size |-> 4, additionalInfo |-> <<2, " LATEST">>]
       /\ op.result.objects[j] =
            [name |-> <<"a">>, size |-> 3, additionalInfo |-> <<1>>]
       /\ op.result.objects[k] =
            [name |-> <<"a", "b">>, size |-> 0, additionalInfo |-> <<4, " LATEST">>]

(***************************************************************************)
(* BuildCopyingInfos.  The filter is the set of the objects it accepts; a  *)
(* rename function and a source transformer are named.  The call panics    *)
(* when the filter accepts a nil entry: object.GetName() is evaluated for  *)
(* the debug line of every accepted entry.                                 *)
(***************************************************************************)
\* A storage.Object that is nil.
NilObject == [name |-> <<>>, size |-> 0, additionalInfo |-> <<"nil">>]

\* The objects of the lists handed to BuildCopyingInfos.
ObjectPool ==
  {NewLocalObject(<<"a">>, 3), NewLocalObject(<<"b">>, 5), NilObject}

\* o.GetName()
GetName(o) == o.name

\* var NoopRenameFunc = func(o storage.Object) string {...}
NoopRenameFunc(o) == IF o = NilObject THEN <<>> ELSE GetName(o)

\* A rename function of a caller: the name with ".bak" after it.
BakRenameFunc(o) == GetName(o) \o <<".bak">>

\* renameFunc(object), for the rename functions of the model.
Rename(renameFunc, object) ==
  IF renameFunc = "NoopRenameFunc" THEN NoopRenameFunc(object)
                                   ELSE BakRenameFunc(object)

\* InfoProvider{From, To, SrcObj, targetName, SourceTransformer}
InfoProvider(from, to, object, targetName, sourceTransformer) ==
  [From |-> from, To |-> to, SrcObj |-> object, targetName |-> targetName,
   SourceTransformer |-> sourceTransformer]

\* Mutant of BuildCopyingInfos: the job's target name is the object's name.
BuildCopyingInfosKeepingNames(from, to, objects, filter, renameFunc, sourceTransformer) ==
  LET Accepted(object) == object \in filter
      kept == SelectSeq(objects, Accepted)
      panic == \E i \in DOMAIN kept : kept[i] = NilObject
  IN  [panic |-> panic,
       infos |-> IF panic THEN <<>>
                 ELSE [i \in DOMAIN kept |->
                         InfoProvider(from, to, kept[i],
                                      NoopRenameFunc(kept[i]),
                                      sourceTransformer)]]

\* Mutant of BuildCopyingInfos: the filter is not asked.
BuildCopyingInfosUnfiltered(from, to, objects, filter, renameFunc, sourceTransformer) ==
  LET panic == \E i \in DOMAIN objects : objects[i] = NilObject
  IN  [panic |-> panic,
       infos |-> IF panic THEN <<>>
                 ELSE [i \in DOMAIN objects |->
                         InfoProvider(from, to, objects[i],
                                      Rename(renameFunc, objects[i]),
                                      sourceTransformer)]]

\* BuildCopyingInfos(from, to, objects, filter, renameFunc, sourceTransformer)
BuildCopyingInfos(from, to, objects, filter, renameFunc, sourceTransformer) ==
  LET Accepted(object) == object \in filter
      kept == SelectSeq(objects, Accepted)
      panic == \E i \in DOMAIN kept : kept[i] = NilObject
  IN  [panic |-> panic,
       infos |-> IF panic THEN <<>>
                 ELSE [i \in DOMAIN kept |->
                         InfoProvider(from, to, kept[i],
                                      Rename(renameFunc, kept[i]),
                                      sourceTransformer)]]

\* The lists of objects BuildCopyingInfos is called with.
BuildInputs == UNION {[1..n -> ObjectPool] : n \in 0..MaxObjects}

InitBuild ==
  /\ IdleInfos
  /\ IdleDelete
  /\ configs = [c \in ConfigIds |-> Config("")]
  /\ folders = <<NewFolder(<<"d">>, 1), NewFolder(<<"/", "d", "/", "c", "/">>, 1)>>
  /\ op = NoOp
  /\ copying = {}

\* A call of BuildCopyingInfos, the one call of a behaviour.
CallBuildCopyingInfos ==
  /\ op = NoOp
  /\ \E from \in DOMAIN folders, to \in DOMAIN folders, objects \in BuildInputs,
        filter \in SUBSET ObjectPool,
        renameFunc \in {"NoopRenameFunc", "BakRenameFunc"},
        sourceTransformer \in {"nil", "NoopSourceTransformer"} :
       /\ from # to
       /\ LET built == BuildCopyingInfos(folders[from], folders[to], objects,
                                         filter, renameFunc, sourceTransformer)
          IN  op' = [name |-> "BuildCopyingInfos",
                     from |-> folders[from], to |-> folders[to],
                     objects |-> objects, filter |-> filter,
                     renameFunc |-> renameFunc,
                     sourceTransformer |-> sourceTransformer,
                     panic |-> built.panic, infos |-> built.infos]
  /\ UNCHANGED <<infosVars, deleteVars, configs, folders, copying>>

NextBuild == CallBuildCopyingInfos

SpecBuild == InitBuild /\ [][NextBuild]_vars

\* C20: for a list whose accepted entries are objects (none of them nil),
\* BuildCopyingInfos returns one job for every object of the list the
\* filter accepts, in the order of the list, and none for the others; the
\* job has the source folder, the destination folder and the transformer
\* given, the object as its source, and as target name what the rename
\* function gives for the object: with the no-op rename the object's name,
\* with the ".bak" rename the name followed by ".bak".
C20_OneJobPerAcceptedObject ==
  (/\ op.name = "BuildCopyingInfos"
   /\ \A i \in DOMAIN op.objects :
        op.objects[i] \in op.filter => op.objects[i] # NilObject) =>
    LET Accepted(i) == op.objects[i] \in op.filter
        at == SelectSeq([i \in DOMAIN op.objects |-> i], Accepted)
    IN  /\ ~op.panic
        /\ Len(op.infos) = Cardinality({i \in DOMAIN op.objects : Accepted(i)})
        /\ Len(op.infos) = Len(at)
        /\ \A k \in DOMAIN at :
             /\ op.infos[k].From = op.from
             /\ op.infos[k].To = op.to
             /\ op.infos[k].SourceTransformer = op.sourceTransformer
             /\ op.infos[k].SrcObj = op.objects[at[k]]
             /\ op.infos[k].targetName =
                  IF op.renameFunc = "BakRenameFunc"
                    THEN op.objects[at[k]].name \o <<".bak">>
                    ELSE op.objects[at[k]].name

\* C20 witness: of 5 objects the filter accepted 3, and BuildCopyingInfos
\* returned 3 jobs whose target names are the source names followed by
\* ".bak".
C20_Witness ==
  /\ op.name = "BuildCopyingInfos"
  /\ Len(op.objects) = 5
  /\ op.renameFunc = "BakRenameFunc"
  /\ ~op.panic
  /\ Len(op.infos) = 3
  /\ op.infos[1].targetName = <<"a", ".bak">>
  /\ op.infos[2].targetName = <<"b", ".bak">>

(***************************************************************************)
(* The paths of Folders.  A path is a sequence of characters; NewFolder is *)
(* called with every path of "/" and "d" up to MaxPathLen characters, the  *)
(* empty path among them, and GetSubFolder with the same relative paths,   *)
(* on the Folder the call before it built.                                 *)
(***************************************************************************)
PathInputs == UNION {[1..n -> {"/", "d"}] : n \in 0..MaxPathLen}

InitPath ==
  /\ IdleInfos
  /\ IdleDelete
  /\ IdleFolder

\* A call of NewFolder.
CallNewFolder ==
  \E path \in PathInputs, c \in ConfigIds :
    /\ op' = [name |-> "NewFolder", path |-> path, depth |-> 0,
              built |-> NewFolder(path, c)]
    /\ UNCHANGED <<infosVars, deleteVars, configs, folders, copying>>

\* A call of GetSubFolder on the Folder the last call built.
CallGetSubFolder ==
  \E subFolderRelativePath \in PathInputs :
    /\ op.name \in {"NewFolder", "GetSubFolder"}
    /\ op.depth < MaxDepth
    /\ op' = [name |-> "GetSubFolder", path |-> subFolderRelativePath,
              depth |-> op.depth + 1,
              built |-> GetSubFolder(op.built, subFolderRelativePath)]
    /\ UNCHANGED <<infosVars, deleteVars, configs, folders, copying>>

NextPath ==
  \/ CallNewFolder
  \/ CallGetSubFolder

SpecPath == InitPath /\ [][NextPath]_vars

\* C21: the Folder built by NewFolder, and every Folder derived from it by
\* GetSubFolder, has a GetPath() that ends with exactly one "/" and holds no
\* two "/" in a row, whatever the path given: empty, with or without
\* leading or trailing slashes, with repeated slashes.
C21_PrefixNormalized ==
  op.name \in {"NewFolder", "GetSubFolder"} =>
    LET path == GetPath(op.built)
    IN  /\ path # <<>>
        /\ path[Len(path)] = "/"
        /\ \A i \in 1..(Len(path) - 1) : ~(path[i] = "/" /\ path[i + 1] = "/")

\* C22: in every state of a run of Infos the tickets in the channel plus
\* the job goroutines that were started and have not yet put their ticket
\* back (in copyObject, or at "tickets <- nil") are 8; so the channel never
\* holds more than 8 tickets, and a goroutine at "tickets <- nil" finds room
\* in the channel, whether its copyObject succeeded or failed.
C22_TicketsConserved ==
  /\ tickets + CountAt("copyObject") + CountAt("tickets") = maxParallelJobsCount
  /\ tickets <= maxParallelJobsCount
  /\ At("tickets") # {} => tickets < maxParallelJobsCount

\* C22 witness: a job that failed and a job that succeeded have both put
\* their tickets back while another job is still in its transfer.
C22_Witness ==
  /\ \E g \in At("errors") \cup At("Done") : g.val # NoError
  /\ \E g \in At("errors") \cup At("Done") : g.val = NoError
  /\ CountAt("copyObject") > 0
  /\ tickets = maxParallelJobsCount - CountAt("copyObject")

(***************************************************************************)
(* Runs of Infos that return early: the first job of the list fails, the   *)
(* others succeed.  The list of one succeeding job is the run that returns *)
(* nil.                                                                    *)
(***************************************************************************)
EarlyInputs == {JobList(MaxEarlyJobs, {1}), JobList(1, {})}

InitInfosEarly ==
  /\ IdleDelete
  /\ IdleFolder
  /\ chs \in EarlyInputs
  /\ idx = 0
  /\ pc = IF Len(chs) = 0 THEN "Wait" ELSE "drain"
  /\ ret = NoError
  /\ tickets = maxParallelJobsCount
  /\ errors = <<>>
  /\ wg = 0
  /\ goroutines = EmptyBag
  /\ started = <<>>
  /\ copied = EmptyBag
  /\ firstFailed = NoError
  /\ firstReported = NoError
  /\ drained = <<>>

SpecInfosEarly == InitInfosEarly /\ [][NextInfos]_vars

\* The steps of the job goroutines.
JobStep == CopyObjectReturns \/ ReleaseTicket \/ ReportResult \/ Done

\* C23: once Infos has returned an error from the loop, a job goroutine
\* that is still running can take its next step: it is never left at
\* "tickets <- nil" or "errors <- err" with nobody to receive, so every job
\* in flight goes on to release its ticket, report its result and end.
C23_InFlightJobsFinish ==
  (pc = "returned" /\ ret # NoError /\ goroutines # EmptyBag) => ENABLED JobStep

(***************************************************************************)
(* Calls of ListFolder, DeleteObjects and SetVersioningEnabled, one after  *)
(* the other, on a Folder and its sub-folder.  DeleteObjects is called     *)
(* with lists that fit one part.                                           *)
(***************************************************************************)
\* s3API.ListObjectVersions(Prefix: prefix) on the bucket of the Folders:
\* an error, or one response with the first pageLimit revisions under the
\* prefix, the object versions and the delete markers apart.
ListObjectVersionsIn(prefix) ==
  LET perKey == [i \in DOMAIN ListKeyOrder |->
                   IF HasPrefix(ListKeyOrder[i], prefix)
                     THEN [j \in DOMAIN store[ListKeyOrder[i]] |->
                             [Key |-> ListKeyOrder[i],
                              VersionId |-> store[ListKeyOrder[i]][j].VersionId,
                              IsDeleteMarker |->
                                store[ListKeyOrder[i]][j].IsDeleteMarker]]
                     ELSE <<>>]
      all    == Flatten(perKey)
      page   == SubSeq(all, 1, Min(pageLimit, Len(all)))
      IsVersion(r) == ~r.IsDeleteMarker
      IsMarker(r)  == r.IsDeleteMarker
  IN  IF prefix \in listFails
        THEN [err |-> TRUE, Versions |-> <<>>, DeleteMarkers |-> <<>>]
        ELSE [err |-> FALSE,
              Versions |-> SelectSeq(page, IsVersion),
              DeleteMarkers |-> SelectSeq(page, IsMarker)]

\* folder.getObjectVersions(key), for the Folder given.
getObjectVersionsIn(folder, key) ==
  LET out == ListObjectVersionsIn(folder.path \o key)
      Id(r) == ObjectIdentifier(r.Key, r.VersionId)
  IN  IF out.err
        THEN [list |-> <<>>, err |-> TRUE]
        ELSE [list |-> [i \in DOMAIN out.Versions |-> Id(out.Versions[i])]
                         \o [i \in DOMAIN out.DeleteMarkers |->
                               Id(out.DeleteMarkers[i])],
              err |-> FALSE]

\* folder.partitionToObjects(keys, versioningEnabled), for the Folder given.
partitionToObjectsIn(folder, keys, versioningEnabled) ==
  Flatten([i \in DOMAIN keys |->
             IF versioningEnabled
               THEN getObjectVersionsIn(folder, keys[i]).list
               ELSE <<ObjectIdentifier(folder.path \o keys[i], NoVersionId)>>])

\* The lists of relative paths of these DeleteObjects calls.
ModeDeleteInputs == {<<>>, <<<<"a">>>>, <<<<"a">>, <<"b">>>>}

\* folder.DeleteObjects(objectRelativePaths), on the Folder folders[f]; the
\* backend answers the s3API.DeleteObjects call with an error if failed.
DeleteObjectsIn ==
  \E f \in DOMAIN folders, paths \in ModeDeleteInputs, failed \in BOOLEAN :
    LET folder == folders[f]
        split  == partitionStrings(paths, DeleteBatchSize)
        v      == isVersioningEnabledWith(ModeOf(folder))
        objects == partitionToObjectsIn(folder, split[1], v.result)
    IN  /\ Len(split) <= 1
        /\ failed => split # <<>>
        /\ Len(calls) < MaxDeleteCalls
        /\ configs' = [configs EXCEPT ![folder.config].EnableVersioning = v.config]
        /\ IF split = <<>>
             THEN UNCHANGED <<calls, store>>
             ELSE /\ calls' = Append(calls, Call(split[1], objects, failed))
                  /\ store' = IF failed THEN store ELSE AfterDelete(store, objects)
        /\ op' = [name |-> "DeleteObjects",
                  folder |-> f,
                  objectRelativePaths |-> paths,
                  versioned |-> v.result,
                  calls |-> v.calls
                              \o (IF v.result
                                    THEN [i \in DOMAIN paths |-> "ListObjectVersions"]
                                    ELSE <<>>)
                              \o (IF split = <<>> THEN <<>> ELSE <<"DeleteObjects">>),
                  failed |-> failed]
        /\ UNCHANGED <<infosVars, folders, copying, EnableVersioning,
                       bucketStatus, versioningQueryFails, listFails, pageLimit,
                       objectRelativePaths, dpc, needsVersioning, parts, dret,
                       store0>>

InitMode ==
  /\ IdleInfos
  /\ IdleDeleteCall
  /\ \E mode \in VersioningModes : configs = [c \in ConfigIds |-> Config(mode)]
  /\ folders = <<NewFolder(<<"d">>, 1),
                 GetSubFolder(NewFolder(<<"d">>, 1), <<"c">>)>>
  /\ op = NoOp
  /\ copying = {}
  /\ \E b \in ListBuckets : bucketStatus = b[1] /\ store = b[2]
  /\ versioningQueryFails \in BOOLEAN
  /\ pageLimit = MaxPage

NextMode ==
  \/ ListFolder
  \/ DeleteObjectsIn
  \/ SetVersioningEnabled

SpecMode == InitMode /\ [][NextMode]_vars

\* The call the step makes issues a get-bucket-versioning query.
Queries == \E i \in DOMAIN op'.calls : op'.calls[i] = "GetBucketVersioning"

\* C24: a call of ListFolder, DeleteObjects or SetVersioningEnabled on a
\* Folder whose versioning mode is enabled or disabled issues no
\* get-bucket-versioning query; ListFolder and DeleteObjects work with that
\* mode and leave it as it is, SetVersioningEnabled sets enabled only from
\* enabled, and no call makes a resolved mode unknown again.  On a Folder
\* whose mode is unknown a failed query is answered as not enabled: it
\* leaves the mode unknown in ListFolder and DeleteObjects, which work
\* without versions, and SetVersioningEnabled sets disabled.
C24_ResolvedModeNotQueriedAgain ==
  [][LET folder == folders[op'.folder]
         mode   == ModeOf(folder)
         after  == configs'[folder.config].EnableVersioning
     IN  /\ mode # "" =>
              /\ ~Queries
              /\ op'.name \in {"ListFolder", "DeleteObjects"} =>
                   /\ op'.versioned = (mode = "enabled")
                   /\ after = mode
              /\ op'.name = "SetVersioningEnabled" =>
                   after = IF op'.enable /\ mode = "enabled"
                                       THEN "enabled" ELSE "disabled"
         /\ \A g \in DOMAIN folders :
              ModeOf(folders[g]) # "" => ModeOf(folders[g])' # ""
         /\ (mode = "" /\ versioningQueryFails) =>
              /\ op'.name \in {"ListFolder", "DeleteObjects"} =>
                   /\ Queries
                   /\ ~op'.versioned
                   /\ after = ""
              /\ op'.name = "SetVersioningEnabled" =>
                   after = "disabled"]_vars

\* C24 witness: DeleteObjects deleted a path without its versions and
\* without a query in a bucket whose versioning is enabled and whose query
\* would have succeeded: the Folder's mode had been resolved to disabled.
C24_Witness ==
  /\ op.name = "DeleteObjects"
  /\ op.objectRelativePaths # <<>>
  /\ ~op.failed
  /\ bucketStatus = "Enabled"
  /\ ~versioningQueryFails
  /\ ~op.versioned
  /\ \A i \in DOMAIN op.calls : op.calls[i] # "GetBucketVersioning"
  /\ ModeOf(folders[op.folder]) = "disabled"

(***************************************************************************)
(* A copy job: InfoProvider.copyObject.  The job reads from the Folder     *)
(* d/c/ and uploads to the Folder d/ of the same bucket.  A source         *)
(* transformer is nil, NoopSourceTransformer, or a caller's function that  *)
(* returns an error.  The uploader is the one of internal: configuring it  *)
(* and the upload succeed or fail, and an upload that succeeds puts the    *)
(* stream's content at the target name in the destination Folder.          *)
(***************************************************************************)
SourceTransformers == {"nil", "NoopSourceTransformer", "FailingTransformer"}

\* ch.SourceTransformer(objReadCloser): the error it returns.
TransformAnswer(sourceTransformer) ==
  IF sourceTransformer = "FailingTransformer"
    THEN OtherError("transform") ELSE Nil

\* ch.copyObject(): the error returned, whether ReadObject handed out a
\* stream, whether objReadCloser.Close() has run when copyObject returns
\* (the defer statement was reached), and the upload made, if any.
copyObjectOf(ch, fault, notExist, configureErr, uploadErr) ==
  LET read == ReadObject(ch.From, GetName(ch.SrcObj), fault, notExist)
      Outcome(err, opened, closed, put) ==
        [err |-> err, opened |-> opened, closed |-> closed, put |-> put]
  IN  IF read.err # Nil THEN Outcome(read.err, FALSE, FALSE, <<>>)
      ELSE IF ch.SourceTransformer # "nil"
                /\ TransformAnswer(ch.SourceTransformer) # Nil
        THEN Outcome(TransformAnswer(ch.SourceTransformer), TRUE, FALSE, <<>>)
      ELSE IF configureErr # Nil THEN Outcome(configureErr, TRUE, TRUE, <<>>)
      ELSE IF uploadErr # Nil THEN Outcome(uploadErr, TRUE, TRUE, <<>>)
      ELSE Outcome(Nil, TRUE, TRUE,
                   <<[Key |-> ch.To.path \o ch.targetName,
                      Size |-> read.reader.Body.Size]>>)

\* A run of ch.copyObject() for a job from folders[1] to folders[2].
CopyObjectJob ==
  \E name \in {<<"a">>, <<"b">>}, targetName \in ObjectPaths,
     sourceTransformer \in SourceTransformers,
     fault \in {Nil} \cup OtherFailures, notExist \in NotExistErrors,
     configureErr \in {Nil, OtherError("configure")},
     uploadErr \in {Nil, OtherError("upload")} :
    LET ch  == InfoProvider(folders[1], folders[2], NewLocalObject(name, 7),
                            targetName, sourceTransformer)
        out == copyObjectOf(ch, fault, notExist, configureErr, uploadErr)
    IN  /\ op' = [name |-> "copyObject", ch |-> ch,
                  read |-> ReadObject(ch.From, name, fault, notExist).err,
                  transform |-> TransformAnswer(sourceTransformer),
                  opened |-> out.opened, closed |-> out.closed,
                  put |-> out.put, result |-> out.err]
        /\ store' = IF out.put = <<>> THEN store
                    ELSE Written(out.put[1].Key, Version(0, out.put[1].Size))
        /\ UNCHANGED <<infosVars, EnableVersioning, bucketStatus,
                       versioningQueryFails, listFails, pageLimit,
                       objectRelativePaths, dpc, needsVersioning, parts, calls,
                       dret, store0, configs, folders, copying>>

InitCopy ==
  /\ IdleInfos
  /\ IdleDeleteCall
  /\ configs = [c \in ConfigIds |-> Config("")]
  /\ folders = <<GetSubFolder(NewFolder(<<"d">>, 1), <<"c">>),
                 NewFolder(<<"d">>, 1)>>
  /\ op = NoOp
  /\ copying = {}
  /\ \E b \in {<<"", ListEmptyStore>>, <<"", ListPlainStore>>,
               <<"Suspended", ListVersionedStore>>} :
       bucketStatus = b[1] /\ store = b[2]
  /\ versioningQueryFails = FALSE
  /\ pageLimit = MaxPage

NextCopy == CopyObjectJob

SpecCopy == InitCopy /\ [][NextCopy]_vars

\* C25: when a copy job ends, the stream ReadObject opened for it, if it
\* opened one, is closed, whether the job succeeded or failed in the
\* transformer, in configuring the uploader or in the upload; and a job
\* whose read or whose transformer failed has written nothing to the
\* destination Folder.
C25_StreamClosedAndNoWriteOnFailure ==
  [][op'.name = "copyObject" =>
       /\ op'.opened => op'.closed
       /\ (op'.read # Nil \/ (op'.ch.SourceTransformer # "nil"
                               /\ op'.transform # Nil)) =>
            /\ op'.put = <<>>
            /\ store' = store]_vars

=============================================================================
